---- MODULE Spec2Model ----
(***************************************************************************)
(* RashPlayer-C: the shared-memory handoff, the vision orchestrator and    *)
(* the logic brain (FSM, blackboard, rule evaluator, expression language). *)
(*                                                                         *)
(* Strings that the C code inspects character by character (variable      *)
(* names, rule conditions) are sequences of one-character strings.         *)
(* Floats are integers in hundredths (confidence 1.0f is 100).             *)
(* int32_t values are integers; the literals and coordinates used here     *)
(* keep every sum and difference far inside the 32-bit range.              *)
(***************************************************************************)
EXTENDS Integers, Sequences, FiniteSets, TLC

(* ------------------------------------------------------------------ *)
(* Program constants                                                    *)
(* ------------------------------------------------------------------ *)
MAX_RULES == 256
MAX_VARIABLES == 64
RASHPLAYER_MAX_TEMPLATES == 32
RASHPLAYER_MAX_TRIGGERS == 64
RESULT_SLOTS == 16
NAME_MAX == 31
COLOR_MIN_PIXELS == 100
EDGE_MIN_GRADIENT == 1000
DEFAULT_DURATION_MS == 50
DEFAULT_RANDOMIZE == 30

(* ------------------------------------------------------------------ *)
(* Bounds of the model                                                  *)
(* ------------------------------------------------------------------ *)
MaxFrames == 3
MaxTriggers == 2
MaxTemplates == 1
ElapsedNs == 1
FrameSize == 16
MaxClock == 2
MaxLoads == 2
MaxRulesEvaluated == 4
MaxBoard == 3
MaxAtoms == 3
MaxComparisons == 3
MaxSlots == 3
MaxSessions == 2
MaxLow == 3

(* ------------------------------------------------------------------ *)
(* Enumerations of shared_bridge.h                                      *)
(* ------------------------------------------------------------------ *)
GameState == {"IDLE", "DETECTING", "ACTION_PENDING", "EXECUTING", "PAUSED", "ERROR"}

ActionType == {"NONE", "TAP", "SWIPE", "LONG_PRESS", "DRAG", "WAIT"}

TriggerType == {"TEMPLATE_MATCH", "COLOR_MATCH", "EDGE_DETECT", "OCR_REGION"}

Point2D(px, py) == [x |-> px, y |-> py]

Rect2D(rx, ry, rw, rh) == [x |-> rx, y |-> ry, width |-> rw, height |-> rh]

ZeroResult ==
    [trigger_id |-> 0, found |-> FALSE, confidence |-> 0, location |-> Point2D(0, 0),
     bounding_box |-> Rect2D(0, 0, 0, 0), timestamp_ns |-> 0]

ZeroAction ==
    [type |-> "NONE", start |-> Point2D(0, 0), end |-> Point2D(0, 0),
     duration_ms |-> 0, hold_ms |-> 0, randomize |-> 0]

(* C integer division truncates toward zero. *)
CDiv(a, b) == IF a >= 0 THEN a \div b ELSE -((-a) \div b)

(* ------------------------------------------------------------------ *)
(* State                                                                *)
(* ------------------------------------------------------------------ *)
VARIABLES
    shm,                  \* the mapped SharedMemoryHeader and the pixel buffer after it
    g_rules,              \* logic_brain.c statics
    g_rule_count,
    g_variables,
    g_variable_count,
    g_current_state,
    g_brain_initialized,
    action,               \* the static ActionCommand inside brain_evaluate
    g_triggers,           \* vision_engine.c statics
    g_trigger_count,
    g_templates,
    g_template_count,
    g_vision_initialized,
    in_flight,            \* payload groups the consumer stored that the producer cannot see yet
    ppc,                  \* producer's position in the handoff protocol
    cpc,                  \* consumer's position in main's loop
    ret,                  \* the status the last API call returned (0 after a void call)
    clock,                \* what get_time_ns() returns now (CLOCK_MONOTONIC)
    hist                  \* history: the last call, and who observed or stored what for which frame

brain_vars == <<g_rules, g_rule_count, g_variables, g_variable_count, g_current_state,
                g_brain_initialized, action>>

vision_vars == <<g_triggers, g_trigger_count, g_templates, g_template_count,
                 g_vision_initialized>>

vars == <<shm, brain_vars, vision_vars, in_flight, ppc, cpc, ret, clock, hist>>

(* ------------------------------------------------------------------ *)
(* Blackboard: set_variable / get_variable                              *)
(* A blackboard is the pair of statics g_variables, g_variable_count;   *)
(* the live entries are slots 1..count of the array.                    *)
(* ------------------------------------------------------------------ *)
Blackboard(variables, count) == [variables |-> variables, count |-> count]

(* strncpy(dst, name, 31); dst[31] = '\0' *)
TruncName(name) == IF Len(name) > NAME_MAX THEN SubSeq(name, 1, NAME_MAX) ELSE name

(* array[i] = v on an array kept as the sequence of the slots written so far *)
StoreSlot(arr, i, v) == IF i <= Len(arr) THEN [arr EXCEPT ![i] = v] ELSE Append(arr, v)

(* set_variable without the capacity test *)
StoreVariable_no_capacity(bb, i, name, value) ==
    IF i > 0
    THEN [bb |-> Blackboard([bb.variables EXCEPT ![i].value = value], bb.count), ret |-> 0]
    ELSE [bb |-> Blackboard(StoreSlot(bb.variables, bb.count + 1,
                                      [name |-> TruncName(name), value |-> value]),
                            bb.count + 1),
          ret |-> 0]

(* index of the first live slot whose name strcmp-equals name, 0 when none *)
FindVariable(bb, name) ==
    LET hits == {i \in 1..bb.count : bb.variables[i].name = name}
    IN IF hits = {} THEN 0 ELSE CHOOSE i \in hits : \A j \in hits : i <= j

(* set_variable once the search loop has ended: i is the slot found, 0 for none *)
StoreVariable(bb, i, name, value) ==
    IF i > 0
    THEN [bb |-> Blackboard([bb.variables EXCEPT ![i].value = value], bb.count), ret |-> 0]
    ELSE IF bb.count >= MAX_VARIABLES
         THEN [bb |-> bb, ret |-> -1]
         ELSE [bb |-> Blackboard(StoreSlot(bb.variables, bb.count + 1,
                                           [name |-> TruncName(name), value |-> value]),
                                 bb.count + 1),
               ret |-> 0]

set_variable(bb, name, value) == StoreVariable(bb, FindVariable(bb, name), name, value)

(* get_variable once the search loop has ended *)
LoadVariable(bb, i) == IF i > 0 THEN bb.variables[i].value ELSE 0

get_variable(bb, name) == LoadVariable(bb, FindVariable(bb, name))

(* ------------------------------------------------------------------ *)
(* Expression language: tokenize, eval_value, eval_condition            *)
(* ------------------------------------------------------------------ *)
DigitChars == <<"0", "1", "2", "3", "4", "5", "6", "7", "8", "9">>

isdigit(c) == \E d \in 1..10 : DigitChars[d] = c

DigitValue(c) == (CHOOSE d \in 1..10 : DigitChars[d] = c) - 1

isalpha(c) ==
    c \in {"a", "b", "c", "d", "e", "f", "g", "h", "i", "j", "k", "l", "m",
           "n", "o", "p", "q", "r", "s", "t", "u", "v", "w", "x", "y", "z",
           "A", "B", "C", "D", "E", "F", "G", "H", "I", "J", "K", "L", "M",
           "N", "O", "P", "Q", "R", "S", "T", "U", "V", "W", "X", "Y", "Z"}

isalnum(c) == isalpha(c) \/ isdigit(c)

isspace(c) == c \in {" ", "\t", "\n", "\r", "\f"}

Tail2(s) == SubSeq(s, 3, Len(s))

RECURSIVE SkipSpace(_)
SkipSpace(s) == IF s # <<>> /\ isspace(Head(s)) THEN SkipSpace(Tail(s)) ELSE s

(* the digits strtol consumes, accumulated in base 10 *)
RECURSIVE ParseDigits(_, _)
ParseDigits(s, acc) ==
    IF s # <<>> /\ isdigit(Head(s))
    THEN ParseDigits(Tail(s), acc * 10 + DigitValue(Head(s)))
    ELSE [value |-> acc, rest |-> s]

(* strtol(expr, &expr, 10) where expr starts with a digit or with '-' and a digit *)
strtol(s) ==
    IF Head(s) = "-"
    THEN LET d == ParseDigits(Tail(s), 0) IN [value |-> -d.value, rest |-> d.rest]
    ELSE ParseDigits(s, 0)

(* the identifier characters the tokenizer copies: at most 31 *)
RECURSIVE ScanIdent(_, _)
ScanIdent(s, acc) ==
    IF s # <<>> /\ (isalnum(Head(s)) \/ Head(s) = "_") /\ Len(acc) < NAME_MAX
    THEN ScanIdent(Tail(s), Append(acc, Head(s)))
    ELSE [name |-> acc, rest |-> s]

Token(type, num_value, str_value, rest) ==
    [type |-> type, num_value |-> num_value, str_value |-> str_value, rest |-> rest]

NumberToken(n) == Token("NUMBER", n.value, <<>>, n.rest)

IdentToken(id) == Token("VARIABLE", 0, id.name, id.rest)

StartsWith2(e, a, b) == Len(e) >= 2 /\ e[1] = a /\ e[2] = b

(* the token that starts at e, the expression with leading spaces skipped *)
TokenAt(e) ==
    IF e = <<>> THEN Token("END", 0, <<>>, e)
    ELSE IF isdigit(e[1]) \/ (e[1] = "-" /\ Len(e) >= 2 /\ isdigit(e[2]))
    THEN NumberToken(strtol(e))
    ELSE IF StartsWith2(e, ">", "=") THEN Token("OP_GE", 0, <<>>, Tail2(e))
    ELSE IF StartsWith2(e, "<", "=") THEN Token("OP_LE", 0, <<>>, Tail2(e))
    ELSE IF StartsWith2(e, "=", "=") THEN Token("OP_EQ", 0, <<>>, Tail2(e))
    ELSE IF StartsWith2(e, "!", "=") THEN Token("OP_NE", 0, <<>>, Tail2(e))
    ELSE IF StartsWith2(e, "&", "&") THEN Token("OP_AND", 0, <<>>, Tail2(e))
    ELSE IF StartsWith2(e, "|", "|") THEN Token("OP_OR", 0, <<>>, Tail2(e))
    ELSE IF e[1] = ">" THEN Token("OP_GT", 0, <<>>, Tail(e))
    ELSE IF e[1] = "<" THEN Token("OP_LT", 0, <<>>, Tail(e))
    ELSE IF e[1] = "+" THEN Token("OP_ADD", 0, <<>>, Tail(e))
    ELSE IF e[1] = "-" THEN Token("OP_SUB", 0, <<>>, Tail(e))
    ELSE IF isalpha(e[1]) \/ e[1] = "_"
    THEN IdentToken(ScanIdent(e, <<>>))
    ELSE Token("END", 0, <<>>, e)

(* tokenize(&expr): the token read and, in rest, where expr points afterwards *)
tokenize(expr) == TokenAt(SkipSpace(expr))

(* the value of the first token of eval_value: a number, a variable, or 0 *)
TokenValue(bb, token) ==
    IF token.type = "NUMBER" THEN token.num_value
    ELSE IF token.type = "VARIABLE" THEN get_variable(bb, token.str_value)
    ELSE 0

(* the combination that adds whatever the operator is *)
Combine_add(value, sign, r) == [value |-> value + r.value, rest |-> r.rest]

(* value + sign * (the recursive eval_value result r) *)
Combine(value, sign, r) == [value |-> value + sign * r.value, rest |-> r.rest]

(* eval_value after its first token: value is the first operand, saved the   *)
(* position after it, op the token read at saved                              *)
RECURSIVE EvalFirst(_, _)
RECURSIVE EvalTail(_, _, _, _)
EvalTail(bb, value, saved, op) ==
    IF op.type = "OP_ADD" THEN Combine(value, 1, EvalFirst(bb, tokenize(op.rest)))
    ELSE IF op.type = "OP_SUB" THEN Combine(value, -1, EvalFirst(bb, tokenize(op.rest)))
    ELSE [value |-> value, rest |-> saved]

(* eval_value once its first token has been read *)
EvalFirst(bb, token) ==
    EvalTail(bb, TokenValue(bb, token), token.rest, tokenize(token.rest))

(* eval_value(&expr): the value and, in rest, where expr points afterwards *)
eval_value(bb, expr) == EvalFirst(bb, tokenize(expr))

Compare(op, left, right) ==
    IF op = "OP_GT" THEN left > right
    ELSE IF op = "OP_LT" THEN left < right
    ELSE IF op = "OP_GE" THEN left >= right
    ELSE IF op = "OP_LE" THEN left <= right
    ELSE IF op = "OP_EQ" THEN left = right
    ELSE IF op = "OP_NE" THEN left # right
    ELSE FALSE

(* the comparison alone, whatever follows it *)
CondLogical_first(bb, result, logical) == result

(* eval_condition after the comparison: result is its value, logical the    *)
(* token that follows the right operand                                      *)
RECURSIVE eval_condition(_, _)
RECURSIVE CondLogical(_, _, _)
CondLogical(bb, result, logical) ==
    IF logical.type = "OP_AND" THEN result /\ eval_condition(bb, logical.rest)
    ELSE IF logical.type = "OP_OR" THEN result \/ eval_condition(bb, logical.rest)
    ELSE result

(* eval_condition after the operator token: right is the right operand *)
CondRight(bb, left, op, right) ==
    CondLogical(bb, Compare(op.type, left.value, right.value), tokenize(right.rest))

(* eval_condition after the left operand: op is the token that follows it *)
CondOp(bb, left, op) ==
    IF op.type = "END" THEN left.value # 0
    ELSE CondRight(bb, left, op, eval_value(bb, op.rest))

(* eval_condition after the left operand has been evaluated *)
CondLeft(bb, left) == CondOp(bb, left, tokenize(left.rest))

eval_condition(bb, condition) == CondLeft(bb, eval_value(bb, condition))

(* ------------------------------------------------------------------ *)
(* FSM                                                                  *)
(* ------------------------------------------------------------------ *)
(* fsm_transition with a fault: IDLE also starts detecting on a pending action *)
fsm_transition_idle_on_action(current, vision_results, action_pending) ==
    IF current = "IDLE"
    THEN (IF vision_results > 0 \/ action_pending # 0 THEN "DETECTING" ELSE current)
    ELSE IF current = "DETECTING"
    THEN (IF action_pending # 0 THEN "ACTION_PENDING"
          ELSE IF vision_results = 0 THEN "IDLE"
          ELSE current)
    ELSE IF current = "ACTION_PENDING" THEN "EXECUTING"
    ELSE IF current = "EXECUTING" THEN "DETECTING"
    ELSE current

(* fsm_transition with a fault: EXECUTING falls back to IDLE when nothing is seen *)
fsm_transition_executing_to_idle(current, vision_results, action_pending) ==
    IF current = "IDLE"
    THEN (IF vision_results > 0 THEN "DETECTING" ELSE current)
    ELSE IF current = "DETECTING"
    THEN (IF action_pending # 0 THEN "ACTION_PENDING"
          ELSE IF vision_results = 0 THEN "IDLE"
          ELSE current)
    ELSE IF current = "ACTION_PENDING" THEN "EXECUTING"
    ELSE IF current = "EXECUTING"
    THEN (IF vision_results = 0 THEN "IDLE" ELSE "DETECTING")
    ELSE current

(* fsm_transition with a fault: DETECTING never returns to IDLE *)
fsm_transition_detecting_sticks(current, vision_results, action_pending) ==
    IF current = "IDLE"
    THEN (IF vision_results > 0 THEN "DETECTING" ELSE current)
    ELSE IF current = "DETECTING"
    THEN (IF action_pending # 0 THEN "ACTION_PENDING" ELSE current)
    ELSE IF current = "ACTION_PENDING" THEN "EXECUTING"
    ELSE IF current = "EXECUTING" THEN "DETECTING"
    ELSE current

(* fsm_transition with a fault: PAUSED resumes detecting when results arrive *)
fsm_transition_paused_resumes(current, vision_results, action_pending) ==
    IF current = "IDLE"
    THEN (IF vision_results > 0 THEN "DETECTING" ELSE current)
    ELSE IF current = "DETECTING"
    THEN (IF action_pending # 0 THEN "ACTION_PENDING"
          ELSE IF vision_results = 0 THEN "IDLE"
          ELSE current)
    ELSE IF current = "ACTION_PENDING" THEN "EXECUTING"
    ELSE IF current = "EXECUTING" THEN "DETECTING"
    ELSE IF current = "PAUSED"
    THEN (IF vision_results > 0 THEN "DETECTING" ELSE current)
    ELSE current

fsm_transition(current, vision_results, action_pending) ==
    IF current = "IDLE"
    THEN (IF vision_results > 0 THEN "DETECTING" ELSE current)
    ELSE IF current = "DETECTING"
    THEN (IF action_pending # 0 THEN "ACTION_PENDING"
          ELSE IF vision_results = 0 THEN "IDLE"
          ELSE current)
    ELSE IF current = "ACTION_PENDING" THEN "EXECUTING"
    ELSE IF current = "EXECUTING" THEN "DETECTING"
    ELSE current

(* ------------------------------------------------------------------ *)
(* Rule evaluator: brain_evaluate                                       *)
(* ------------------------------------------------------------------ *)
RECURSIVE UIntToStr(_)
UIntToStr(n) ==
    IF n < 10 THEN <<DigitChars[n + 1]>>
    ELSE UIntToStr(n \div 10) \o <<DigitChars[(n % 10) + 1]>>

(* snprintf(buf, 64, "trigger_%u<suffix>", id) *)
TriggerVarName(id, suffix) ==
    <<"t", "r", "i", "g", "g", "e", "r", "_">> \o UIntToStr(id) \o suffix

Name_bird_x == <<"b", "i", "r", "d", "_", "x">>

Name_bird_y == <<"b", "i", "r", "d", "_", "y">>

Name_gap_center_x == <<"g", "a", "p", "_", "c", "e", "n", "t", "e", "r", "_", "x">>

Name_gap_center_y == <<"g", "a", "p", "_", "c", "e", "n", "t", "e", "r", "_", "y">>

(* the blackboard after the body of the update loop for one result *)
(* the convenience names of triggers 1 and 2, set after trigger_<id>_* in b3 *)
UpdateAliases(b3, r) ==
    IF r.trigger_id = 1
    THEN set_variable(set_variable(b3, Name_bird_x, r.location.x).bb,
                      Name_bird_y, r.location.y).bb
    ELSE IF r.trigger_id = 2
    THEN set_variable(set_variable(b3, Name_gap_center_x, r.location.x).bb,
                      Name_gap_center_y, r.location.y).bb
    ELSE b3

UpdateFromResult(bb, r) ==
    IF ~r.found THEN bb
    ELSE UpdateAliases(
             set_variable(
                 set_variable(
                     set_variable(bb, TriggerVarName(r.trigger_id, <<"_", "x">>),
                                  r.location.x).bb,
                     TriggerVarName(r.trigger_id, <<"_", "y">>), r.location.y).bb,
                 TriggerVarName(r.trigger_id, <<"_", "f", "o", "u", "n", "d">>), 1).bb,
             r)

(* for (i = from; i < count; i++) over the results *)
RECURSIVE UpdateVariables(_, _, _, _)
UpdateVariables(bb, results, from, count) ==
    IF from >= count THEN bb
    ELSE UpdateVariables(UpdateFromResult(bb, results[from]), results, from + 1, count)

(* for (i = from; i <= rule_count; i++): best is the index of best_rule, 0 for NULL *)
RECURSIVE SelectRule(_, _, _, _, _, _)
SelectRule(bb, rules, from, rule_count, best_priority, best) ==
    IF from > rule_count THEN best
    ELSE IF rules[from].priority > best_priority /\ eval_condition(bb, rules[from].condition)
    THEN SelectRule(bb, rules, from + 1, rule_count, rules[from].priority, from)
    ELSE SelectRule(bb, rules, from + 1, rule_count, best_priority, best)

NULL_RESULTS == [i \in {} |-> ZeroResult]

(* the action fill without the default duration *)
ActionFromRule_no_duration(rules, best) ==
    IF best # 0
    THEN [ZeroAction EXCEPT !.type = rules[best].action,
                            !.start = rules[best].action_target,
                            !.randomize = DEFAULT_RANDOMIZE]
    ELSE ZeroAction

(* the static action after the selection loop: best is the index of best_rule *)
ActionFromRule(rules, best) ==
    IF best # 0
    THEN [ZeroAction EXCEPT !.type = rules[best].action,
                            !.start = rules[best].action_target,
                            !.duration_ms = DEFAULT_DURATION_MS,
                            !.randomize = DEFAULT_RANDOMIZE]
    ELSE ZeroAction

(* brain_evaluate after the update loop: bb1 is the blackboard it left *)
EvaluateRules(bb1, rules, rule_count) ==
    [bb |-> bb1, action |-> ActionFromRule(rules, SelectRule(bb1, rules, 1, rule_count, -1, 0))]

(* The blackboard after the call and the static action it returns. *)
brain_evaluate(bb, rules, rule_count, results, count) ==
    IF DOMAIN results = {} \/ count <= 0
    THEN [bb |-> bb, action |-> ZeroAction]
    ELSE EvaluateRules(UpdateVariables(bb, results, 0, count), rules, rule_count)

(* ------------------------------------------------------------------ *)
(* brain_process                                                        *)
(* ------------------------------------------------------------------ *)
(* the has_results signal: lines 402-408 *)
(* the signal computed over every slot of the array *)
HasResults_all_slots(h) ==
    IF h.num_results > 0 /\ \A i \in 0..(RESULT_SLOTS - 1) : h.results[i].found
    THEN 1 ELSE 0

HasResults(h) ==
    IF h.num_results > 0 /\ \A i \in 0..(h.num_results - 1) : h.results[i].found
    THEN 1 ELSE 0

(* Everything brain_process computes and stores before its last store        *)
(* (result_ready = 1): the header, the FSM state, the blackboard, the static *)
(* action, and whether pending_action was written. lat is the elapsed time.  *)
ActionPending(act) == IF act.type # "NONE" THEN 1 ELSE 0

(* brain_process from the memcpy of the pending action to the latency stores *)
BrainStores(h, ev, new_state, copy, lat) ==
    [shm   |-> [h EXCEPT !.pending_action = IF copy THEN ev.action ELSE @,
                         !.current_state = new_state,
                         !.brain_latency_ns = lat,
                         !.total_latency_ns = h.vision_latency_ns + lat],
     state |-> new_state,
     bb    |-> ev.bb,
     action |-> ev.action,
     wrote_pending |-> copy]

(* BrainTransitioned with a fault: the action is copied whenever one is pending *)
BrainTransitioned_copy_any_state(h, ev, new_state, lat) ==
    BrainStores(h, ev, new_state, ActionPending(ev.action) # 0, lat)

(* brain_process after the FSM transition *)
BrainTransitioned(h, ev, new_state, lat) ==
    BrainStores(h, ev, new_state,
                ActionPending(ev.action) # 0 /\ new_state = "ACTION_PENDING", lat)

(* brain_process after brain_evaluate *)
BrainEvaluated(h, state, ev, lat) ==
    BrainTransitioned(h, ev,
                      fsm_transition(state, HasResults(h), ActionPending(ev.action)), lat)

(* BrainBody with a fault: result_ready is raised before the function's last store *)
BrainBody_early_signal(h, state, bb, rules, rule_count, lat) ==
    BrainEvaluated([h EXCEPT !.result_ready = 1], state,
                   brain_evaluate(bb, rules, rule_count, h.results, h.num_results), lat)

BrainBody(h, state, bb, rules, rule_count, lat) ==
    BrainEvaluated(h, state, brain_evaluate(bb, rules, rule_count, h.results, h.num_results),
                   lat)

(* BrainSignal with a fault: the store result_ready = 1 is missing *)
BrainSignal_dropped(h) == h

BrainSignal(h) == [h EXCEPT !.result_ready = 1]

(* ------------------------------------------------------------------ *)
(* Vision engine                                                        *)
(* The pixel buffer is kept as what the three detectors measure on it:  *)
(* the number of pixels close to the target colour and their centroid,  *)
(* the peak gradient sum and its row/column, and the best NCC score and *)
(* its position.                                                        *)
(* ------------------------------------------------------------------ *)
Pixels(color_count, centroid, gradient, edge_pos, ncc_score, ncc_pos) ==
    [color_count |-> color_count, centroid |-> centroid, gradient |-> gradient,
     edge_pos |-> edge_pos, ncc_score |-> ncc_score, ncc_pos |-> ncc_pos]

BlankPixels == Pixels(0, Point2D(0, 0), 0, -1, 0, Point2D(0, 0))

HitPixels == Pixels(150, Point2D(5, 6), 2000, 4, 95, Point2D(2, 2))

(* the frame a detector is handed: the measurements and the frame metadata *)
Frame(h) == [pixels |-> h.pixels, width |-> h.frame_width, height |-> h.frame_height]

(* the scan origin and extent the detectors derive from a region: a negative  *)
(* origin is raised to 0, a non-positive extent means the whole axis, and the *)
(* extent is cut at the frame's far side                                      *)
ClampOrigin(o) == IF o > 0 THEN o ELSE 0

ClampExtent(o, e, size) ==
    IF ClampOrigin(o) + (IF e > 0 THEN e ELSE size) > size
    THEN size - ClampOrigin(o)
    ELSE (IF e > 0 THEN e ELSE size)

(* find_color_scalar through vision_find_color_region: the matching pixels   *)
(* are counted when their blob lies in the scanned rectangle; the centre is  *)
(* stored through out_center only when the count is positive.                *)
ColorCount(f, region) ==
    IF /\ f.pixels.centroid.x >= ClampOrigin(region.x)
       /\ f.pixels.centroid.x < ClampOrigin(region.x)
                                  + ClampExtent(region.x, region.width, f.width)
       /\ f.pixels.centroid.y >= ClampOrigin(region.y)
       /\ f.pixels.centroid.y < ClampOrigin(region.y)
                                  + ClampExtent(region.y, region.height, f.height)
    THEN f.pixels.color_count
    ELSE 0

vision_find_color_region(f, region) ==
    [count |-> ColorCount(f, region),
     center_written |-> ColorCount(f, region) > 0,
     center |-> f.pixels.centroid]

(* the rows (horizontal) or columns (vertical) whose gradient sums are taken: *)
(* from origin + 1 to origin + extent - 2                                     *)
EdgeScanned(f, region, horizontal) ==
    IF horizontal
    THEN /\ f.pixels.edge_pos >= ClampOrigin(region.y) + 1
         /\ f.pixels.edge_pos < ClampOrigin(region.y)
                                  + ClampExtent(region.y, region.height, f.height) - 1
         /\ ClampExtent(region.x, region.width, f.width) > 0
    ELSE /\ f.pixels.edge_pos >= ClampOrigin(region.x) + 1
         /\ f.pixels.edge_pos < ClampOrigin(region.x)
                                  + ClampExtent(region.x, region.width, f.width) - 1
         /\ ClampExtent(region.y, region.height, f.height) > 0

vision_detect_edge(f, region, horizontal) ==
    IF EdgeScanned(f, region, horizontal) /\ f.pixels.gradient > 0
    THEN [ret |-> IF f.pixels.gradient > EDGE_MIN_GRADIENT THEN 0 ELSE -1,
          pos |-> f.pixels.edge_pos]
    ELSE [ret |-> -1, pos |-> -1]

(* the static result of vision_find_template; now is what get_time_ns() *)
(* returns inside it                                                     *)
vision_find_template(f, tmpl, now) ==
    [trigger_id   |-> tmpl.id,
     found        |-> f.pixels.ncc_score >= tmpl.threshold,
     confidence   |-> f.pixels.ncc_score,
     location     |-> Point2D(f.pixels.ncc_pos.x + CDiv(tmpl.width, 2),
                              f.pixels.ncc_pos.y + CDiv(tmpl.height, 2)),
     bounding_box |-> Rect2D(f.pixels.ncc_pos.x, f.pixels.ncc_pos.y, tmpl.width, tmpl.height),
     timestamp_ns |-> now]

(* the readings of get_time_ns() during one vision_process_frame: at its  *)
(* start and inside vision_find_template                                  *)
Readings(start, match) == [start |-> start, match |-> match]

(* the slot after the switch for trigger t; r is the slot with trigger_id and *)
(* timestamp_ns already stored; garbage is the value of the uninitialised     *)
(* local `center`.                                                            *)
DetectColor(r, c, garbage) ==
    [r EXCEPT !.found = c.count > COLOR_MIN_PIXELS,
              !.location = IF c.center_written THEN c.center ELSE garbage,
              !.confidence = IF c.count > 0 THEN 100 ELSE 0]

DetectEdge(r, t, e) ==
    [r EXCEPT !.found = (e.ret = 0),
              !.location = IF t.horizontal
                           THEN Point2D(t.region.x + CDiv(t.region.width, 2), e.pos)
                           ELSE Point2D(e.pos, t.region.y + CDiv(t.region.height, 2)),
              !.confidence = IF e.ret = 0 THEN 100 ELSE 0]

DetectInto(r, t, f, tpl, garbage, time) ==
    IF t.type = "TEMPLATE_MATCH"
    THEN (IF t.template_id < tpl.count
          THEN vision_find_template(f, tpl.templates[t.template_id + 1], time.match)
          ELSE r)
    ELSE IF t.type = "COLOR_MATCH"
    THEN DetectColor(r, vision_find_color_region(f, t.region), garbage)
    ELSE IF t.type = "EDGE_DETECT"
    THEN DetectEdge(r, t, vision_detect_edge(f, t.region, t.horizontal))
    ELSE r

(* the slot the loop body starts from: trigger_id and timestamp_ns stored *)
SlotFor(r, t, time) == [r EXCEPT !.trigger_id = t.id, !.timestamp_ns = time.start]

(* Skipped with a fault: the active flag is not looked at *)
Skipped_never(t) == FALSE

(* if (!g_triggers[i].active) continue; *)
Skipped(t) == ~t.active

(* for (i = from; i < g_trigger_count && result_count < 16; i++) *)
RECURSIVE ProcessTriggers(_, _, _, _, _, _, _, _, _)
ProcessTriggers(results, result_count, from, triggers, trigger_count, f, tpl, garbage, time) ==
    IF ~(from < trigger_count /\ result_count < RESULT_SLOTS)
    THEN [results |-> results, result_count |-> result_count]
    ELSE IF Skipped(triggers[from + 1])
    THEN ProcessTriggers(results, result_count, from + 1, triggers, trigger_count,
                         f, tpl, garbage, time)
    ELSE ProcessTriggers(
             [results EXCEPT ![result_count] =
                 DetectInto(SlotFor(results[result_count], triggers[from + 1], time),
                            triggers[from + 1], f, tpl, garbage, time)],
             result_count + 1, from + 1, triggers, trigger_count, f, tpl, garbage, time)

(* the stores that end vision_process_frame: p is what the trigger loop left *)
VisionStores(h, p, lat) ==
    [shm |-> [h EXCEPT !.results = p.results,
                       !.num_results = p.result_count,
                       !.vision_latency_ns = lat],
     ret |-> 0]

(* VisionBody with a fault: the frame_ready check is missing *)
VisionBody_unchecked(h, triggers, trigger_count, tpl, garbage, time, lat) ==
    VisionStores(h, ProcessTriggers(h.results, 0, 0, triggers, trigger_count, Frame(h),
                                    tpl, garbage, time), lat)

(* vision_process_frame on a non-null header: the header after the call and the status *)
VisionBody(h, triggers, trigger_count, tpl, garbage, time, lat) ==
    IF h.frame_ready = 0
    THEN [shm |-> h, ret |-> -1]
    ELSE VisionStores(h, ProcessTriggers(h.results, 0, 0, triggers, trigger_count, Frame(h),
                                         tpl, garbage, time), lat)

(* ------------------------------------------------------------------ *)
(* Inputs                                                               *)
(* ------------------------------------------------------------------ *)
(* what get_time_ns() - start_time may be *)
Latencies == {ElapsedNs}

(* what the uninitialised local `center` of vision_process_frame may hold *)
GarbagePoints == {Point2D(0, 0), Point2D(-7, FrameSize + 1)}

PixelChoices == {BlankPixels, HitPixels}

Trigger(id, type, template_id, horizontal, region, active) ==
    [id |-> id, type |-> type, template_id |-> template_id, horizontal |-> horizontal,
     region |-> region, active |-> active]

TriggerChoices ==
    {Trigger(1, "COLOR_MATCH", 0, FALSE, Rect2D(0, 0, 0, 0), TRUE),
     Trigger(2, "EDGE_DETECT", 0, TRUE, Rect2D(0, 0, FrameSize, FrameSize), TRUE)}

TemplateChoices ==
    {[id |-> 7, width |-> 2, height |-> 2, threshold |-> 80,
      search_region |-> Rect2D(0, 0, 0, 0), data |-> "tmpl"]}

Rule(condition, type, target, priority) ==
    [condition |-> condition, action |-> type, action_target |-> target, priority |-> priority]

(* "trigger_1_found" *)
Cond_found ==
    <<"t", "r", "i", "g", "g", "e", "r", "_", "1", "_", "f", "o", "u", "n", "d">>

(* "bird_y > gap_center_y" *)
Cond_above == Name_bird_y \o <<" ", ">", " ">> \o Name_gap_center_y

(* "bird_y > gap_center_y + 20" *)
Cond_far_above == Cond_above \o <<" ", "+", " ", "2", "0">>

RuleTables ==
    {<<Rule(Cond_found, "TAP", Point2D(5, 5), 1)>>,
     <<Rule(Cond_above, "TAP", Point2D(500, 500), 1),
       Rule(Cond_far_above, "SWIPE", Point2D(600, 600), 2)>>}

Pointers == {"NULL", "SHM"}

(* ------------------------------------------------------------------ *)
(* Initial state: zeroed statics and a freshly created shared region    *)
(* ------------------------------------------------------------------ *)
RASH_MAGIC == 1380012872

InitHeader ==
    [magic |-> RASH_MAGIC, version |-> 1, frame_number |-> 0,
     frame_ready |-> 0, result_ready |-> 0, current_state |-> "IDLE",
     frame_width |-> 0, frame_height |-> 0,
     vision_latency_ns |-> 0, brain_latency_ns |-> 0, total_latency_ns |-> 0,
     num_results |-> 0, results |-> [i \in 0..(RESULT_SLOTS - 1) |-> ZeroResult],
     pending_action |-> ZeroAction,
     pixels |-> BlankPixels]

(* the parts of the payload the consumer stores with plain (non-atomic) stores *)
PayloadGroups == {"results", "state", "action"}

NoHist ==
    [call |-> "none", from |-> "-", since_pending |-> -1, reset_between |-> FALSE,
     cons_seen |-> {}, prod_seen |-> {},
     stamp  |-> [g \in PayloadGroups |-> 0],
     before |-> [g \in PayloadGroups |-> 0],
     seen   |-> [g \in PayloadGroups |-> 0],
     stores |-> <<>>,
     loads  |-> 0,
     latest |-> [n \in {} |-> 0],
     expr   |-> <<>>,
     sessions |-> 0,
     color  |-> <<>>,
     found_at |-> <<>>]

InitStatics ==
    /\ shm = InitHeader
    /\ g_rules = <<>>
    /\ g_rule_count = 0
    /\ g_variables = <<>>
    /\ g_variable_count = 0
    /\ g_current_state = "IDLE"
    /\ g_brain_initialized = FALSE
    /\ action = ZeroAction
    /\ g_triggers = <<>>
    /\ g_trigger_count = 0
    /\ g_templates = <<>>
    /\ g_template_count = 0
    /\ g_vision_initialized = FALSE
    /\ in_flight = {}
    /\ ret = 0
    /\ clock = 0
    /\ hist = NoHist

Init ==
    /\ InitStatics
    /\ ppc = "host"
    /\ cpc = "init"

(* ------------------------------------------------------------------ *)
(* History of the calls                                                 *)
(* since_pending counts the brain_process ticks completed since the     *)
(* last tick that left the FSM in ACTION_PENDING with no brain_set_state *)
(* since: 0 right after that tick, then 1, then 2, and -1 otherwise.    *)
(* reset_between tells whether the brain was shut down or initialised   *)
(* since that tick.                                                     *)
(* ------------------------------------------------------------------ *)
SincePendingAfterTick(h, to) ==
    IF to = "ACTION_PENDING" THEN 0
    ELSE IF h.since_pending \in {0, 1} THEN h.since_pending + 1
    ELSE -1

(* after a brain_process tick that took the FSM from state from to state to *)
NoteTick(h, from, to) ==
    [h EXCEPT !.call = "brain_process",
              !.from = from,
              !.since_pending = SincePendingAfterTick(h, to),
              !.reset_between = IF SincePendingAfterTick(h, to) \in {1, 2} THEN @ ELSE FALSE]

(* after a call that is no brain tick *)
NoteCall(h, name) == [h EXCEPT !.call = name, !.from = "-"]

(* after brain_set_state *)
NoteSetState(h) ==
    [h EXCEPT !.call = "other", !.from = "-", !.since_pending = -1, !.reset_between = FALSE]

(* after brain_shutdown, or a brain_init that initialised, which reset the FSM *)
NoteReset(h) ==
    [h EXCEPT !.call = "other", !.from = "-",
              !.reset_between = IF h.since_pending >= 0 THEN TRUE ELSE @]

(* ------------------------------------------------------------------ *)
(* Logic brain API                                                      *)
(* ------------------------------------------------------------------ *)
brain_init ==
    /\ IF g_brain_initialized
       THEN UNCHANGED <<g_rules, g_rule_count, g_variables, g_variable_count,
                        g_current_state, g_brain_initialized>>
       ELSE /\ g_rules' = <<>>
            /\ g_variables' = <<>>
            /\ g_rule_count' = 0
            /\ g_variable_count' = 0
            /\ g_current_state' = "IDLE"
            /\ g_brain_initialized' = TRUE
    /\ ret' = 0
    /\ UNCHANGED <<shm, action, vision_vars>>

brain_shutdown ==
    /\ g_rule_count' = 0
    /\ g_variable_count' = 0
    /\ g_current_state' = "IDLE"
    /\ g_brain_initialized' = FALSE
    /\ ret' = 0
    /\ UNCHANGED <<shm, g_rules, g_variables, action, vision_vars>>

(* a copy placed after the rules already stored *)
CopyRules_append(old, rules, count) == old \o SubSeq(rules, 1, count)

(* memcpy(g_rules, rules, count * sizeof(DecisionRule)) *)
CopyRules(old, rules, count) ==
    [i \in 1..(IF Len(old) > count THEN Len(old) ELSE count) |->
        IF i <= count THEN rules[i] ELSE old[i]]

brain_load_rules(rules_ptr, rules, count) ==
    /\ IF rules_ptr = "NULL" \/ count <= 0 \/ count > MAX_RULES
       THEN /\ UNCHANGED <<g_rules, g_rule_count>>
            /\ ret' = -1
       ELSE /\ g_rules' = CopyRules(g_rules, rules, count)
            /\ g_rule_count' = count
            /\ ret' = 0
    /\ UNCHANGED <<shm, g_variables, g_variable_count, g_current_state,
                   g_brain_initialized, action, vision_vars>>

brain_set_state(state) ==
    /\ g_current_state' = state
    /\ ret' = 0
    /\ UNCHANGED <<shm, g_rules, g_rule_count, g_variables, g_variable_count,
                   g_brain_initialized, action, vision_vars>>

(* the statics brain_process leaves behind: b is what BrainBody computed *)
BrainStatics(b) ==
    /\ g_current_state' = b.state
    /\ g_variables' = b.bb.variables
    /\ g_variable_count' = b.bb.count
    /\ action' = b.action
    /\ UNCHANGED <<g_rules, g_rule_count, g_brain_initialized, vision_vars>>

(* brain_process(shm) as one call *)
brain_process(ptr) ==
    IF ptr = "NULL"
    THEN /\ ret' = -1
         /\ UNCHANGED <<shm, brain_vars, vision_vars>>
    ELSE \E lat \in Latencies :
         \E b \in {BrainBody(shm, g_current_state,
                             Blackboard(g_variables, g_variable_count),
                             g_rules, g_rule_count, lat)} :
            /\ shm' = BrainSignal(b.shm)
            /\ BrainStatics(b)
            /\ ret' = 0

(* ------------------------------------------------------------------ *)
(* Vision engine API                                                    *)
(* ------------------------------------------------------------------ *)
vision_init ==
    /\ IF g_vision_initialized
       THEN UNCHANGED vision_vars
       ELSE /\ g_templates' = <<>>
            /\ g_triggers' = <<>>
            /\ g_template_count' = 0
            /\ g_trigger_count' = 0
            /\ g_vision_initialized' = TRUE
    /\ ret' = 0
    /\ UNCHANGED <<shm, brain_vars>>

vision_shutdown ==
    /\ g_templates' = [i \in 1..Len(g_templates) |->
                          IF i <= g_template_count
                          THEN [g_templates[i] EXCEPT !.data = "NULL"]
                          ELSE g_templates[i]]
    /\ g_template_count' = 0
    /\ g_trigger_count' = 0
    /\ g_vision_initialized' = FALSE
    /\ ret' = 0
    /\ UNCHANGED <<shm, brain_vars, g_triggers>>

(* malloc_ok: whether malloc(data_size) returns a buffer *)
vision_load_template(tmpl_ptr, tmpl, malloc_ok) ==
    /\ IF tmpl_ptr = "NULL" \/ g_template_count >= RASHPLAYER_MAX_TEMPLATES
       THEN /\ UNCHANGED <<g_templates, g_template_count>>
            /\ ret' = -1
       ELSE IF ~malloc_ok
       THEN /\ g_templates' = StoreSlot(g_templates, g_template_count + 1,
                                        [tmpl EXCEPT !.data = "NULL"])
            /\ UNCHANGED g_template_count
            /\ ret' = -1
       ELSE /\ g_templates' = StoreSlot(g_templates, g_template_count + 1, tmpl)
            /\ g_template_count' = g_template_count + 1
            /\ ret' = g_template_count
    /\ UNCHANGED <<shm, brain_vars, g_triggers, g_trigger_count, g_vision_initialized>>

vision_add_trigger(trigger_ptr, trigger) ==
    /\ IF trigger_ptr = "NULL" \/ g_trigger_count >= RASHPLAYER_MAX_TRIGGERS
       THEN /\ UNCHANGED <<g_triggers, g_trigger_count>>
            /\ ret' = -1
       ELSE /\ g_triggers' = StoreSlot(g_triggers, g_trigger_count + 1, trigger)
            /\ g_trigger_count' = g_trigger_count + 1
            /\ ret' = g_trigger_count
    /\ UNCHANGED <<shm, brain_vars, g_templates, g_template_count, g_vision_initialized>>

(* vision_process_frame(shm) as one call *)
vision_process_frame(ptr) ==
    /\ IF ptr = "NULL"
       THEN /\ ret' = -1
            /\ UNCHANGED shm
       ELSE \E garbage \in GarbagePoints, lat \in Latencies, match \in {clock, clock'} :
            \E v \in {VisionBody(shm, g_triggers, g_trigger_count,
                                 [templates |-> g_templates, count |-> g_template_count],
                                 garbage, Readings(clock, match), lat)} :
               /\ shm' = v.shm
               /\ ret' = v.ret
    /\ UNCHANGED <<brain_vars, vision_vars>>

(* ------------------------------------------------------------------ *)
(* The host that owns the region and calls the API from one thread      *)
(* ------------------------------------------------------------------ *)
(* fills the pixel buffer and the frame metadata, then raises frame_ready *)
HostPublish(pixels) ==
    /\ shm' = [shm EXCEPT !.pixels = pixels,
                          !.frame_width = FrameSize,
                          !.frame_height = FrameSize,
                          !.frame_ready = 1]
    /\ ret' = 0
    /\ UNCHANGED <<brain_vars, vision_vars>>

(* withdraws the frame: lowers frame_ready without a consumer tick *)
HostWithdraw ==
    /\ shm' = [shm EXCEPT !.frame_ready = 0]
    /\ ret' = 0
    /\ UNCHANGED <<brain_vars, vision_vars>>

(* the host moves on: from initialising to configuring to feeding frames *)
HostAdvance(from, to) ==
    /\ cpc = from
    /\ cpc' = to
    /\ UNCHANGED <<shm, brain_vars, vision_vars, in_flight, ppc, ret, clock, hist>>

(* the states brain_set_state is called with *)
StateInputs == GameState

(* the host is in the given phase and stays there *)
HostIn(phase) == cpc = phase /\ UNCHANGED <<in_flight, ppc, cpc, clock>>

(* One host thread, in the order of main: it initialises the two engines,     *)
(* configures them, then publishes frames and calls the per-frame API in any   *)
(* order.                                                                      *)
Next ==
    \/ HostIn("init") /\ ~g_vision_initialized /\ vision_init
          /\ hist' = NoteCall(hist, "other")
    \/ HostIn("init") /\ g_vision_initialized /\ ~g_brain_initialized /\ brain_init
          /\ hist' = NoteReset(hist)
    \/ g_vision_initialized /\ g_brain_initialized /\ HostAdvance("init", "setup")
    \/ \E p \in Pointers, trigger \in TriggerChoices :
          HostIn("setup") /\ g_trigger_count < MaxTriggers /\ vision_add_trigger(p, trigger)
              /\ hist' = NoteCall(hist, "other")
    \/ \E p \in Pointers, rules \in RuleTables :
          \E count \in {0, Len(rules), MAX_RULES + 1} :
              HostIn("setup") /\ brain_load_rules(p, rules, count)
                  /\ hist' = NoteCall(hist, "other")
    \/ HostAdvance("setup", "run")
    \/ HostIn("run") /\ brain_init
          /\ hist' = (IF g_brain_initialized THEN NoteCall(hist, "other") ELSE NoteReset(hist))
    \/ HostIn("run") /\ brain_shutdown /\ hist' = NoteReset(hist)
    \/ \E state \in StateInputs :
          HostIn("run") /\ brain_set_state(state) /\ hist' = NoteSetState(hist)
    \/ \E p \in Pointers :
          HostIn("run") /\ brain_process(p)
              /\ hist' = (IF p = "NULL" THEN NoteCall(hist, "other")
                          ELSE NoteTick(hist, g_current_state, g_current_state'))
    \/ \E p \in Pointers :
          HostIn("run") /\ vision_process_frame(p)
              /\ hist' = NoteCall(hist, "vision_process_frame")
    \/ \E pixels \in PixelChoices :
          HostIn("run") /\ HostPublish(pixels) /\ hist' = NoteCall(hist, "other")
    \/ HostIn("run") /\ HostWithdraw /\ hist' = NoteCall(hist, "other")

Spec == Init /\ [][Next]_vars

(* ------------------------------------------------------------------ *)
(* The handoff: main's loop against a producer in another process       *)
(* The two flags are volatile words; a store to one is seen by the      *)
(* other process at once and in program order. The results, the state   *)
(* and the pending action are stored with no barrier before the store   *)
(* result_ready = 1: a store to them stays in flight until the memory   *)
(* system drains it, and until then the producer reads the old value.   *)
(* ------------------------------------------------------------------ *)
HandoffInit ==
    /\ InitStatics
    /\ ppc = "prepare"
    /\ cpc = "vision_init"

(* the consumer stores payload group g while handling the frame in the header *)
StoreGroup(h, flying, g) ==
    [h EXCEPT !.stamp[g] = shm.frame_number,
              !.before[g] = IF g \in flying THEN @ ELSE h.stamp[g],
              !.stores = Append(@, g)]

(* main: vision_init() *)
main_vision_init ==
    /\ cpc = "vision_init"
    /\ vision_init
    /\ cpc' = "brain_init"
    /\ UNCHANGED <<in_flight, ppc, hist, clock>>

(* main: brain_init() *)
main_brain_init ==
    /\ cpc = "brain_init"
    /\ brain_init
    /\ cpc' = "poll"
    /\ UNCHANGED <<in_flight, ppc, hist, clock>>

(* main: if (shm->frame_ready), else sleep until the next poll *)
main_poll ==
    /\ cpc = "poll"
    /\ IF shm.frame_ready # 0
       THEN /\ cpc' = "vision"
            /\ hist' = [hist EXCEPT !.cons_seen = @ \cup {shm.frame_number},
                                    !.stores = <<>>]
       ELSE UNCHANGED <<cpc, hist>>
    /\ UNCHANGED <<shm, brain_vars, vision_vars, in_flight, ppc, ret, clock>>

(* main: vision_process_frame(shm) *)
main_vision_process_frame ==
    /\ cpc = "vision"
    /\ UNCHANGED <<ppc, clock>>
    /\ vision_process_frame("SHM")
    /\ cpc' = "brain"
    /\ IF ret' = 0
       THEN /\ in_flight' = in_flight \cup {"results"}
            /\ hist' = StoreGroup(hist, in_flight, "results")
       ELSE UNCHANGED <<in_flight, hist>>

(* main: brain_process(shm) up to its last store *)
main_brain_process ==
    /\ cpc = "brain"
    /\ \E lat \in Latencies :
       \E b \in {BrainBody(shm, g_current_state, Blackboard(g_variables, g_variable_count),
                           g_rules, g_rule_count, lat)} :
          /\ shm' = b.shm
          /\ BrainStatics(b)
          /\ IF b.wrote_pending
             THEN /\ in_flight' = in_flight \cup {"action", "state"}
                  /\ hist' = StoreGroup(StoreGroup(hist, in_flight, "action"),
                                        in_flight, "state")
             ELSE /\ in_flight' = in_flight \cup {"state"}
                  /\ hist' = StoreGroup(hist, in_flight, "state")
    /\ cpc' = "signal"
    /\ UNCHANGED <<ppc, ret, clock>>

(* main: the last store of brain_process, shm->result_ready = 1, and its return *)
main_result_ready ==
    /\ cpc = "signal"
    /\ shm' = BrainSignal(shm)
    /\ ret' = 0
    /\ cpc' = "clear"
    /\ hist' = [hist EXCEPT !.stores = Append(@, "result_ready")]
    /\ UNCHANGED <<brain_vars, vision_vars, in_flight, ppc, clock>>

(* main_clear_frame_ready with a fault: the loop clears the other flag *)
main_clear_result_ready ==
    /\ cpc = "clear"
    /\ shm' = [shm EXCEPT !.result_ready = 0]
    /\ cpc' = "poll"
    /\ hist' = [hist EXCEPT !.stores = Append(@, "frame_ready")]
    /\ UNCHANGED <<brain_vars, vision_vars, in_flight, ppc, ret, clock>>

(* main: shm->frame_ready = 0 *)
main_clear_frame_ready ==
    /\ cpc = "clear"
    /\ shm' = [shm EXCEPT !.frame_ready = 0]
    /\ cpc' = "poll"
    /\ hist' = [hist EXCEPT !.stores = Append(@, "frame_ready")]
    /\ UNCHANGED <<brain_vars, vision_vars, in_flight, ppc, ret, clock>>

(* the memory system makes the consumer's store to group g visible *)
Drain(g) ==
    /\ g \in in_flight
    /\ in_flight' = in_flight \ {g}
    /\ UNCHANGED <<shm, brain_vars, vision_vars, ppc, cpc, ret, hist, clock>>

(* producer: fills the pixels and the metadata of the next frame *)
ProducerPrepare(pixels) ==
    /\ ppc = "prepare"
    /\ shm.frame_number < MaxFrames
    /\ shm' = [shm EXCEPT !.pixels = pixels,
                          !.frame_width = FrameSize,
                          !.frame_height = FrameSize,
                          !.frame_number = @ + 1]
    /\ ppc' = "publish"
    /\ UNCHANGED <<brain_vars, vision_vars, in_flight, cpc, ret, hist, clock>>

(* producer: frame_ready = 1 *)
ProducerPublish ==
    /\ ppc = "publish"
    /\ shm' = [shm EXCEPT !.frame_ready = 1]
    /\ ppc' = "wait"
    /\ UNCHANGED <<brain_vars, vision_vars, in_flight, cpc, ret, hist, clock>>

(* producer: polls result_ready *)
ProducerWait ==
    /\ ppc = "wait"
    /\ IF shm.result_ready # 0
       THEN /\ ppc' = "read"
            /\ hist' = [hist EXCEPT !.prod_seen = @ \cup {shm.frame_number}]
       ELSE UNCHANGED <<ppc, hist>>
    /\ UNCHANGED <<shm, brain_vars, vision_vars, in_flight, cpc, ret, clock>>

(* producer: reads the results, the state and the action; of a group whose   *)
(* store is still in flight it reads the value from before that store        *)
ProducerRead ==
    /\ ppc = "read"
    /\ ppc' = "clear"
    /\ hist' = [hist EXCEPT !.seen = [g \in PayloadGroups |->
                                         IF g \in in_flight THEN hist.before[g]
                                         ELSE hist.stamp[g]]]
    /\ UNCHANGED <<shm, brain_vars, vision_vars, in_flight, cpc, ret, clock>>

(* producer: result_ready = 0 *)
ProducerClear ==
    /\ ppc = "clear"
    /\ shm' = [shm EXCEPT !.result_ready = 0]
    /\ ppc' = "prepare"
    /\ UNCHANGED <<brain_vars, vision_vars, in_flight, cpc, ret, hist, clock>>

Consumer ==
    \/ main_vision_init
    \/ main_brain_init
    \/ main_poll
    \/ main_vision_process_frame
    \/ main_brain_process
    \/ main_result_ready
    \/ main_clear_frame_ready

Producer ==
    \/ \E pixels \in PixelChoices : ProducerPrepare(pixels)
    \/ ProducerPublish
    \/ ProducerWait
    \/ ProducerRead
    \/ ProducerClear

Memory == \E g \in PayloadGroups : Drain(g)

HandoffNext == Consumer \/ Producer \/ Memory

Handoff == HandoffInit /\ [][HandoffNext]_vars

(* both processes keep running: main's loop never exits, the producer follows *)
(* the protocol                                                               *)
FairHandoff == Handoff /\ WF_vars(Consumer) /\ WF_vars(Producer)

(* ------------------------------------------------------------------ *)
(* The vision engine on its own: a host that loads templates, adds      *)
(* triggers, publishes frames and runs the orchestrator, while the      *)
(* clock advances during every vision_process_frame call.               *)
(* ------------------------------------------------------------------ *)
Tmpl(id, width, height, threshold) ==
    [id |-> id, width |-> width, height |-> height, threshold |-> threshold,
     search_region |-> Rect2D(0, 0, 0, 0), data |-> "tmpl"]

(* the template lists a host loads, one vision_load_template call per entry; *)
(* the second is one longer than the table                                   *)
TemplateLists ==
    {<<Tmpl(7, 2, 2, 80)>>,
     [i \in 1..(RASHPLAYER_MAX_TEMPLATES + 1) |-> Tmpl(100 + i, 2, 2, 80)]}

WholeFrame == Rect2D(0, 0, 0, 0)

(* the trigger tables a host builds, one vision_add_trigger call per entry:  *)
(* every trigger type, an inactive trigger between active ones, regions that *)
(* start at negative coordinates or extend past the frame, a template        *)
(* trigger whose template was never loaded, and a table one longer than the  *)
(* trigger array with every fourth trigger inactive                          *)
TriggerTables ==
    {<<Trigger(1, "COLOR_MATCH", 0, FALSE, WholeFrame, TRUE),
       Trigger(8, "COLOR_MATCH", 0, FALSE, WholeFrame, FALSE),
       Trigger(3, "TEMPLATE_MATCH", 0, FALSE, WholeFrame, TRUE),
       Trigger(2, "EDGE_DETECT", 0, TRUE, Rect2D(0, 0, FrameSize, FrameSize), TRUE)>>,
     <<Trigger(4, "EDGE_DETECT", 0, TRUE, Rect2D(-6, 0, 4, 0), TRUE),
       Trigger(5, "EDGE_DETECT", 0, FALSE, Rect2D(0, FrameSize - 4, 0, 10), TRUE),
       Trigger(1, "COLOR_MATCH", 0, FALSE, Rect2D(-4, -4, 12, 12), TRUE),
       Trigger(6, "TEMPLATE_MATCH", 5, FALSE, WholeFrame, TRUE),
       Trigger(9, "OCR_REGION", 0, FALSE, WholeFrame, TRUE)>>,
     <<Trigger(6, "TEMPLATE_MATCH", 5, FALSE, WholeFrame, TRUE),
       Trigger(9, "OCR_REGION", 0, FALSE, WholeFrame, TRUE)>>,
     [i \in 1..(RASHPLAYER_MAX_TRIGGERS + 1) |->
         Trigger(i, "EDGE_DETECT", 0, TRUE, WholeFrame, i % 4 # 0)]}

(* whether malloc returns a buffer *)
MallocOutcomes == BOOLEAN

VisionInit ==
    /\ InitStatics
    /\ ppc = "host"
    /\ cpc = "boot"

(* the vision host is in the given phase; the clock stands still between calls *)
VisionHostIn(phase) == cpc = phase /\ UNCHANGED <<brain_vars, in_flight, ppc>>

VisionHostBoot ==
    /\ VisionHostIn("boot")
    /\ UNCHANGED clock
    /\ vision_init
    /\ cpc' = "templates"
    /\ hist' = NoteCall(hist, "vision_init")

(* the next template of a list whose loaded part is the current table; after *)
(* a restart the host loads at most MaxTemplates templates                   *)
VisionHostLoadTemplate ==
    \E p \in Pointers, list \in TemplateLists, malloc_ok \in MallocOutcomes :
        /\ VisionHostIn("templates")
        /\ UNCHANGED <<clock, cpc>>
        /\ g_template_count < Len(list)
        /\ hist.sessions = 0 \/ g_template_count < MaxTemplates
        /\ SubSeq(g_templates, 1, g_template_count) = SubSeq(list, 1, g_template_count)
        /\ vision_load_template(p, list[g_template_count + 1], malloc_ok)
        /\ hist' = NoteCall(hist, "vision_load_template")

(* the next trigger of a table whose added part is the current table; after *)
(* a restart the host adds at most MaxTriggers triggers                     *)
VisionHostAddTrigger ==
    \E p \in Pointers, table \in TriggerTables :
        /\ VisionHostIn("triggers")
        /\ UNCHANGED <<clock, cpc>>
        /\ g_trigger_count < Len(table)
        /\ hist.sessions = 0 \/ g_trigger_count < MaxTriggers
        /\ SubSeq(g_triggers, 1, g_trigger_count) = SubSeq(table, 1, g_trigger_count)
        /\ vision_add_trigger(p, table[g_trigger_count + 1])
        /\ hist' = NoteCall(hist, "vision_add_trigger")

(* the host moves on to the next phase; it adds triggers and processes frames *)
(* with at most MaxTemplates templates loaded                                 *)
VisionHostAdvance(from, to) ==
    /\ cpc = from
    /\ g_template_count <= MaxTemplates
    /\ cpc' = to
    /\ UNCHANGED <<shm, brain_vars, vision_vars, in_flight, ppc, ret, clock, hist>>

VisionHostPublish ==
    \E pixels \in PixelChoices :
        /\ VisionHostIn("run")
        /\ UNCHANGED <<clock, cpc>>
        /\ HostPublish(pixels)
        /\ hist' = NoteCall(hist, "other")

VisionHostWithdraw ==
    /\ VisionHostIn("run")
    /\ UNCHANGED <<clock, cpc>>
    /\ HostWithdraw
    /\ hist' = NoteCall(hist, "other")

(* the call takes ElapsedNs on the clock *)
VisionHostProcess ==
    \E p \in Pointers :
        /\ VisionHostIn("run")
        /\ clock < MaxClock
        /\ clock' = clock + ElapsedNs
        /\ UNCHANGED cpc
        /\ vision_process_frame(p)
        /\ hist' = NoteCall(hist, "vision_process_frame")

(* the host shuts the engine down and, at most MaxSessions - 1 times, starts *)
(* it again on the same region                                              *)
VisionHostShutdown ==
    /\ VisionHostIn("run")
    /\ UNCHANGED clock
    /\ vision_shutdown
    /\ cpc' = IF hist.sessions + 1 < MaxSessions THEN "boot" ELSE "down"
    /\ hist' = [NoteCall(hist, "other") EXCEPT !.sessions = @ + 1]

VisionNext ==
    \/ VisionHostBoot
    \/ VisionHostLoadTemplate
    \/ VisionHostAdvance("templates", "triggers")
    \/ VisionHostAddTrigger
    \/ VisionHostAdvance("triggers", "run")
    \/ VisionHostPublish
    \/ VisionHostWithdraw
    \/ VisionHostProcess
    \/ VisionHostShutdown

VisionSpec == VisionInit /\ [][VisionNext]_vars

(* ------------------------------------------------------------------ *)
(* The logic brain on its own: a host that loads rule tables and then   *)
(* calls brain_evaluate on result arrays.                               *)
(* ------------------------------------------------------------------ *)
(* "1" and "0": conditions that hold and fail on every blackboard *)
Cond_true == <<"1">>

Cond_false == <<"0">>

(* rule tables with equal, unordered and negative priorities, and a table *)
(* that fills g_rules                                                      *)
PriorityTables ==
    {<<Rule(Cond_true, "TAP", Point2D(1, 1), 0),
       Rule(Cond_true, "SWIPE", Point2D(2, 2), 5),
       Rule(Cond_true, "DRAG", Point2D(3, 3), 5),
       Rule(Cond_false, "WAIT", Point2D(4, 4), 9)>>,
     <<Rule(Cond_found, "LONG_PRESS", Point2D(6, 6), 3),
       Rule(Cond_true, "TAP", Point2D(7, 7), -1)>>,
     <<Rule(Cond_true, "TAP", Point2D(8, 8), -1)>>,
     [i \in 1..MAX_RULES |->
         Rule(IF i = MAX_RULES THEN Cond_true ELSE Cond_false, "WAIT", Point2D(i, i), 1)]}

RuleInputs == RuleTables \cup PriorityTables

(* the counts brain_load_rules is called with for a given array *)
CountInputs(rules) == {-1, 0, 1, Len(rules), MAX_RULES + 1}

Result(id, found, px, py) ==
    [ZeroResult EXCEPT !.trigger_id = id, !.found = found, !.location = Point2D(px, py),
                       !.confidence = IF found THEN 100 ELSE 0]

(* a C array of results: indices from 0 *)
ResultArray(seq) == [i \in 0..(Len(seq) - 1) |-> seq[i + 1]]

ResultArrays ==
    {ResultArray(<<Result(1, TRUE, 3, 9)>>),
     ResultArray(<<Result(1, TRUE, 3, 30), Result(2, TRUE, 4, 5)>>),
     ResultArray(<<Result(1, FALSE, 8, 8)>>),
     ResultArray(<<Result(3, TRUE, 1, 2), Result(2, FALSE, 8, 8)>>)}

(* a found result of a trigger whose id no earlier call has used: its three *)
(* variables are new to a blackboard of n entries                           *)
FreshResult(n) == ResultArray(<<Result(100 + n, TRUE, 3, 4)>>)

(* the arrays and counts brain_evaluate is called with: the arrays above with *)
(* their length, with count 0 and as a null pointer, and then, to fill the    *)
(* blackboard, one fresh result after the other                               *)
EvaluateInputs ==
    IF cpc = "fill"
    THEN {[results |-> FreshResult(g_variable_count), count |-> 1]}
    ELSE {[results |-> r, count |-> Cardinality(DOMAIN r)] : r \in ResultArrays} \cup
         {[results |-> r, count |-> 0] : r \in ResultArrays} \cup
         {[results |-> NULL_RESULTS, count |-> 1]}

BrainInit ==
    /\ InitStatics
    /\ ppc = "host"
    /\ cpc = "boot"

BrainHostIn(phase) == cpc = phase /\ UNCHANGED <<in_flight, ppc, clock>>

BrainHostBoot ==
    /\ BrainHostIn("boot")
    /\ brain_init
    /\ cpc' = "rules"
    /\ hist' = NoteCall(hist, "brain_init")

(* at most MaxLoads calls load a table *)
BrainHostLoadRules ==
    \E p \in Pointers, rules \in RuleInputs :
        \E count \in CountInputs(rules) :
            /\ BrainHostIn("rules")
            /\ UNCHANGED cpc
            /\ hist.loads < MaxLoads
            /\ brain_load_rules(p, rules, count)
            /\ hist' = [NoteCall(hist, "brain_load_rules") EXCEPT
                            !.loads = IF ret' = 0 THEN @ + 1 ELSE @]

(* the host moves on; it evaluates with at most MaxRulesEvaluated rules loaded *)
BrainHostAdvance(from, to) ==
    /\ cpc = from
    /\ cpc' = to
    /\ g_rule_count <= MaxRulesEvaluated
    /\ UNCHANGED <<shm, brain_vars, vision_vars, in_flight, ppc, ret, clock, hist>>

(* the indices of the found results of a call; none for a null array or count <= 0 *)
FoundIndices(in) ==
    IF DOMAIN in.results = {} \/ in.count <= 0 THEN {}
    ELSE {i \in 0..(in.count - 1) : in.results[i].found}

(* the location of the last found result of trigger id k in the call *)
LastLocation(in, k) ==
    LET hits == {i \in FoundIndices(in) : in.results[i].trigger_id = k}
    IN in.results[CHOOSE i \in hits : \A j \in hits : j <= i].location

(* per trigger id, the location of its latest found result over all calls *)
NoteFound(h, in) ==
    [h EXCEPT !.call = "brain_evaluate", !.from = "-",
              !.found_at = [k \in DOMAIN @ \cup {in.results[i].trigger_id : i \in FoundIndices(in)} |->
                               IF \E i \in FoundIndices(in) : in.results[i].trigger_id = k
                               THEN LastLocation(in, k) ELSE @[k]]]

(* brain_evaluate(in.results, in.count) as one call; ret is 0 for the pointer it returns *)
BrainEvaluateCall(in) ==
    \E ev \in {brain_evaluate(Blackboard(g_variables, g_variable_count), g_rules,
                              g_rule_count, in.results, in.count)} :
        /\ UNCHANGED <<in_flight, ppc, clock, cpc>>
        /\ g_variables' = ev.bb.variables
        /\ g_variable_count' = ev.bb.count
        /\ action' = ev.action
        /\ ret' = 0
        /\ UNCHANGED <<shm, g_rules, g_rule_count, g_current_state, g_brain_initialized,
                       vision_vars>>
        /\ hist' = NoteFound(hist, in)

BrainHostEvaluate ==
    /\ cpc \in {"run", "fill"}
    /\ \E in \in EvaluateInputs : BrainEvaluateCall(in)

BrainNext ==
    \/ BrainHostBoot
    \/ BrainHostLoadRules
    \/ BrainHostAdvance("rules", "run")
    \/ BrainHostAdvance("run", "fill")
    \/ BrainHostEvaluate

BrainSpec == BrainInit /\ [][BrainNext]_vars

(* ------------------------------------------------------------------ *)
(* The blackboard on its own: sequences of set_variable and             *)
(* get_variable calls on names of every length, up to a full table.     *)
(* ------------------------------------------------------------------ *)
(* a name of 33 characters and the 31 characters strncpy keeps of it *)
Name_long == [i \in 1..(NAME_MAX + 2) |-> "v"]

Name_long_cut == SubSeq(Name_long, 1, NAME_MAX)

(* a name no other call uses *)
Name_absent == <<"a", "b", "s", "e", "n", "t">>

(* the name that takes slot n when the table is filled *)
FillerName(n) == TriggerVarName(n, <<"_", "x">>)

(* the values of the calls of a phase *)
BoardValues == IF cpc = "fill" THEN {g_variable_count} ELSE {1, 2}

(* the names of the calls of a phase: a few names while the table is small,  *)
(* one new name per call while it is filled, and present and absent names    *)
(* once it is full                                                           *)
BoardNames ==
    IF cpc = "small" THEN {Name_bird_x, Name_long, Name_long_cut}
    ELSE IF cpc = "fill" THEN {FillerName(g_variable_count)}
    ELSE {Name_bird_x, Name_long, Name_absent}

BoardInit ==
    /\ InitStatics
    /\ ppc = "host"
    /\ cpc = "small"

BoardUnchanged ==
    UNCHANGED <<shm, g_rules, g_rule_count, g_current_state, g_brain_initialized, action,
                vision_vars, in_flight, ppc, cpc, clock>>

(* latest successful set of each name *)
NoteSet(h, name, value, status) ==
    [h EXCEPT !.call = "set_variable",
              !.latest = IF status = 0
                         THEN [n \in DOMAIN @ \cup {name} |-> IF n = name THEN value ELSE @[n]]
                         ELSE @]

(* set_variable(name, value) as one call *)
BoardSetCall(name, value) ==
    \E sv \in {set_variable(Blackboard(g_variables, g_variable_count), name, value)} :
        /\ g_variables' = sv.bb.variables
        /\ g_variable_count' = sv.bb.count
        /\ ret' = sv.ret
        /\ hist' = NoteSet(hist, name, value, sv.ret)
        /\ BoardUnchanged

(* get_variable(name) as one call: ret is the value it returns *)
BoardGetCall(name) ==
    /\ ret' = get_variable(Blackboard(g_variables, g_variable_count), name)
    /\ hist' = [hist EXCEPT !.call = "get_variable"]
    /\ UNCHANGED <<g_variables, g_variable_count>>
    /\ BoardUnchanged

(* while the table is small a call leaves at most MaxBoard entries *)
BoardSet ==
    /\ cpc = "small" => g_variable_count < MaxBoard
    /\ \E name \in BoardNames, value \in BoardValues : BoardSetCall(name, value)

BoardGet == \E name \in BoardNames : BoardGetCall(name)

BoardAdvance(from, to) ==
    /\ cpc = from
    /\ cpc' = to
    /\ to = "full" => g_variable_count = MAX_VARIABLES
    /\ UNCHANGED <<shm, brain_vars, vision_vars, in_flight, ppc, ret, clock, hist>>

BoardNext ==
    \/ BoardSet
    \/ BoardGet
    \/ BoardAdvance("small", "fill")
    \/ BoardAdvance("fill", "full")

BlackboardSpec == BoardInit /\ [][BoardNext]_vars

(* ------------------------------------------------------------------ *)
(* The standalone consumer from its first statement: main attaches to   *)
(* a region that some producer created, with any magic in its header.   *)
(* ------------------------------------------------------------------ *)
(* the magic of the mapped header: the protocol's, or another value *)
Magics == {RASH_MAGIC, 0}

(* what shm_open and mmap may return *)
AttachOutcomes == {"mapped", "shm_open failed", "mmap failed"}

(* the producer created the region before main runs: its header has magic m *)
AttachInitWith(m) ==
    /\ shm = [InitHeader EXCEPT !.magic = m]
    /\ g_rules = <<>>
    /\ g_rule_count = 0
    /\ g_variables = <<>>
    /\ g_variable_count = 0
    /\ g_current_state = "IDLE"
    /\ g_brain_initialized = FALSE
    /\ action = ZeroAction
    /\ g_triggers = <<>>
    /\ g_trigger_count = 0
    /\ g_templates = <<>>
    /\ g_template_count = 0
    /\ g_vision_initialized = FALSE
    /\ in_flight = {}
    /\ ret = 0
    /\ clock = 0
    /\ hist = NoHist
    /\ ppc = "prepare"
    /\ cpc = "attach"

(* main: shm_open and mmap; return 1 when either fails, else go on to vision_init *)
main_attach ==
    /\ cpc = "attach"
    /\ \E outcome \in AttachOutcomes :
          IF outcome = "mapped"
          THEN cpc' = "vision_init" /\ UNCHANGED ret
          ELSE cpc' = "exit" /\ ret' = 1
    /\ UNCHANGED <<shm, brain_vars, vision_vars, in_flight, ppc, clock, hist>>

AttachNext == main_attach \/ HandoffNext

AttachInit == \E m \in Magics : AttachInitWith(m)

Attach == AttachInit /\ [][AttachNext]_vars

(* ------------------------------------------------------------------ *)
(* The expression language on its own: eval_value and eval_condition    *)
(* on expressions written out from their structure, on blackboards      *)
(* where the identifier x is absent or set.                             *)
(* ------------------------------------------------------------------ *)
Num(n) == [kind |-> "num", n |-> n]

Var(name) == [kind |-> "var", name |-> name]

Name_x == <<"x">>

Name_zz == <<"z", "z">>

(* the atoms of the expressions: literals, a negative literal, an identifier *)
(* that calls set and one that no call sets                                  *)
Atoms == {Num(10), Num(3), Num(2), Num(-1), Var(Name_x), Var(Name_zz)}

ArithOps == {"+", "-"}

(* atom (op atom)*: atoms[i] and atoms[i + 1] are joined by ops[i] *)
Chain(atoms, ops) == [atoms |-> atoms, ops |-> ops]

ChainsOf(n) ==
    {Chain(a, o) : a \in [1..n -> Atoms], o \in [1..(n - 1) -> ArithOps]}

ValueChains == UNION {ChainsOf(n) : n \in 1..MaxAtoms}

(* the characters of an atom *)
AtomText(a) ==
    IF a.kind = "var" THEN a.name
    ELSE IF a.n < 0 THEN <<"-">> \o UIntToStr(0 - a.n)
    ELSE UIntToStr(a.n)

(* the characters of a chain from atom i on; an operator has a space before *)
(* it and, unless glued, a space after it                                    *)
RECURSIVE ChainText(_, _, _)
ChainText(c, i, glued) ==
    IF i = Len(c.atoms) THEN AtomText(c.atoms[i])
    ELSE AtomText(c.atoms[i]) \o <<" ", c.ops[i]>> \o (IF glued THEN <<>> ELSE <<" ">>)
         \o ChainText(c, i + 1, glued)

RelOps == <<">", "<", ">=", "<=", "==", "!=">>

(* the characters of relational operator k *)
RelText(k) ==
    IF k = 1 THEN <<">">> ELSE IF k = 2 THEN <<"<">> ELSE IF k = 3 THEN <<">", "=">>
    ELSE IF k = 4 THEN <<"<", "=">> ELSE IF k = 5 THEN <<"=", "=">> ELSE <<"!", "=">>

(* value relop value *)
Comparison(left, k, right) == [left |-> left, rel |-> k, right |-> right]

One(a) == Chain(<<a>>, <<>>)

Two(a, op, b) == Chain(<<a, b>>, <<op>>)

Comparisons ==
    {Comparison(One(Num(2)), 1, One(Num(-1))),
     Comparison(One(Num(2)), 2, One(Num(-1))),
     Comparison(Two(Var(Name_x), "-", Num(3)), 1, One(Num(0))),
     Comparison(One(Var(Name_x)), 4, Two(Num(2), "+", Num(2))),
     Comparison(One(Var(Name_zz)), 5, One(Num(0))),
     Comparison(One(Var(Name_x)), 6, One(Num(4))),
     Comparison(Chain(<<Num(10), Num(3), Num(2)>>, <<"-", "-">>), 3, One(Num(9)))}

LogicalOps == {"&&", "||"}

(* comparison (logical comparison)* *)
CondChain(comps, logs) == [kind |-> "chain", comps |-> comps, logs |-> logs]

CondChainsOf(n) ==
    {CondChain(c, l) : c \in [1..n -> Comparisons], l \in [1..(n - 1) -> LogicalOps]}

(* a condition that is one value, with no relational operator *)
CondValue(c) == [kind |-> "value", chain |-> c]

Conditions ==
    UNION {CondChainsOf(n) : n \in 1..MaxComparisons} \cup
    {CondValue(c) : c \in ChainsOf(1) \cup ChainsOf(2)}

CompText(cmp, glued) ==
    ChainText(cmp.left, 1, glued) \o <<" ">> \o RelText(cmp.rel) \o <<" ">>
    \o ChainText(cmp.right, 1, glued)

LogText(l) == IF l = "&&" THEN <<"&", "&">> ELSE <<"|", "|">>

RECURSIVE CondChainText(_, _, _)
CondChainText(c, i, glued) ==
    IF i = Len(c.comps) THEN CompText(c.comps[i], glued)
    ELSE CompText(c.comps[i], glued) \o <<" ">> \o LogText(c.logs[i]) \o <<" ">>
         \o CondChainText(c, i + 1, glued)

ConditionText(c, glued) ==
    IF c.kind = "value" THEN ChainText(c.chain, 1, glued) ELSE CondChainText(c, 1, glued)

(* the values set(x, v) is called with *)
ExprValues == {0, 4}

ExprInit ==
    /\ InitStatics
    /\ ppc = "host"
    /\ cpc = "expr"

(* the expression of a call: its structure, its layout and its characters *)
NoteExpr(h, name, form, glued, text) ==
    [h EXCEPT !.call = name, !.expr = [form |-> form, glued |-> glued, text |-> text]]

ExprSetVariable ==
    /\ cpc = "expr"
    /\ \E value \in ExprValues : BoardSetCall(Name_x, value)

(* what an evaluation leaves alone; the host makes one evaluation *)
ExprEvaluated ==
    /\ cpc = "expr"
    /\ cpc' = "evaluated"
    /\ UNCHANGED <<shm, brain_vars, vision_vars, in_flight, ppc, clock>>

(* eval_value(&expr) on the characters of a chain; ret is the value returned *)
ExprEvalValue ==
    /\ cpc = "expr"
    /\ \E c \in ValueChains, glued \in BOOLEAN :
       \E text \in {ChainText(c, 1, glued)} :
        /\ ret' = eval_value(Blackboard(g_variables, g_variable_count), text).value
        /\ hist' = NoteExpr(hist, "eval_value", c, glued, text)
        /\ ExprEvaluated

(* eval_condition(condition) on the characters of a condition; ret is 1 or 0 *)
ExprEvalCondition ==
    /\ cpc = "expr"
    /\ \E c \in Conditions, glued \in BOOLEAN :
       \E text \in {ConditionText(c, glued)} :
        /\ ret' = IF eval_condition(Blackboard(g_variables, g_variable_count), text)
                  THEN 1 ELSE 0
        /\ hist' = NoteExpr(hist, "eval_condition", c, glued, text)
        /\ ExprEvaluated

ExprNext ==
    \/ ExprSetVariable
    \/ ExprEvalValue
    \/ ExprEvalCondition

ExprSpec == ExprInit /\ [][ExprNext]_vars

(* ------------------------------------------------------------------ *)
(* brain_process on its own: ticks on headers whose first slots and     *)
(* num_results take every combination, from every FSM state.            *)
(* ------------------------------------------------------------------ *)
(* result arrays whose slots 0..MaxSlots-1 are found or not; slot i belongs *)
(* to trigger id i + 1                                                      *)
SlotArrays ==
    {[i \in 0..(RESULT_SLOTS - 1) |->
         IF i < MaxSlots THEN Result(i + 1, f[i], i + 2, i + 3) ELSE ZeroResult] :
     f \in [0..(MaxSlots - 1) -> BOOLEAN]}

(* no rules, or one rule that always asks for an action *)
TickRules == {<<>>, <<Rule(Cond_true, "TAP", Point2D(1, 1), 1)>>}

(* a header left by earlier frames and the statics of an initialised brain *)
TickInitWith(results, n, state, rules) ==
    /\ shm = [InitHeader EXCEPT !.results = results, !.num_results = n,
                                !.current_state = state]
    /\ g_rules = rules
    /\ g_rule_count = Len(rules)
    /\ g_variables = <<>>
    /\ g_variable_count = 0
    /\ g_current_state = state
    /\ g_brain_initialized = TRUE
    /\ action = ZeroAction
    /\ g_triggers = <<>>
    /\ g_trigger_count = 0
    /\ g_templates = <<>>
    /\ g_template_count = 0
    /\ g_vision_initialized = FALSE
    /\ in_flight = {}
    /\ ret = 0
    /\ clock = 0
    /\ hist = NoHist
    /\ ppc = "host"
    /\ cpc = "tick"

TickInit ==
    \E results \in SlotArrays, n \in 0..MaxSlots, state \in GameState, rules \in TickRules :
        TickInitWith(results, n, state, rules)

(* brain_process(shm) as one call *)
TickProcess ==
    /\ cpc = "tick"
    /\ brain_process("SHM")
    /\ hist' = NoteCall(hist, "brain_process")
    /\ UNCHANGED <<in_flight, ppc, cpc, clock>>

(* the host changes the FSM state between ticks *)
TickSetState ==
    /\ cpc = "tick"
    /\ \E state \in {"IDLE", "DETECTING"} : brain_set_state(state)
    /\ hist' = NoteCall(hist, "brain_set_state")
    /\ UNCHANGED <<in_flight, ppc, cpc, clock>>

TickNext == TickProcess \/ TickSetState

TickSpec == TickInit /\ [][TickNext]_vars

(* ------------------------------------------------------------------ *)
(* rgb_to_hsv on its own, on channels near 0, near 255 and mid-range    *)
(* ------------------------------------------------------------------ *)
(* (uint8_t)x *)
U8(x) == x % 256

Max3(r, g, b) == IF r > g THEN (IF r > b THEN r ELSE b) ELSE (IF g > b THEN g ELSE b)

Min3(r, g, b) == IF r < g THEN (IF r < b THEN r ELSE b) ELSE (IF g < b THEN g ELSE b)

(* the hue for a non-zero delta: int arithmetic with C's truncating division *)
Hue(r, g, b, max, delta) ==
    IF max = r THEN U8(CDiv(30 * (g - b), delta) + (IF g < b THEN 180 ELSE 0))
    ELSE IF max = g THEN U8(CDiv(30 * (b - r), delta) + 60)
    ELSE U8(CDiv(30 * (r - g), delta) + 120)

(* rgb_to_hsv once max and delta are computed *)
HsvOf(r, g, b, max, delta) ==
    [h |-> IF delta = 0 THEN 0 ELSE Hue(r, g, b, max, delta),
     s |-> IF max = 0 THEN 0 ELSE U8(CDiv(255 * delta, max)),
     v |-> max]

rgb_to_hsv(r, g, b) ==
    HsvOf(r, g, b, Max3(r, g, b), U8(Max3(r, g, b) - Min3(r, g, b)))

(* the channel values of the inputs *)
Channels == (0..MaxLow) \cup ((255 - MaxLow)..255) \cup {127, 128}

HsvInit ==
    /\ InitStatics
    /\ ppc = "host"
    /\ cpc = "hsv"

(* one conversion; the pixel and the three bytes written are kept *)
HsvConvert ==
    /\ cpc = "hsv"
    /\ cpc' = "converted"
    /\ \E r \in Channels, g \in Channels, b \in Channels :
          hist' = [hist EXCEPT !.call = "rgb_to_hsv",
                               !.color = [r |-> r, g |-> g, b |-> b,
                                          hsv |-> rgb_to_hsv(r, g, b)]]
    /\ UNCHANGED <<shm, brain_vars, vision_vars, in_flight, ppc, ret, clock>>

HsvSpec == HsvInit /\ [][HsvConvert]_vars

(* ------------------------------------------------------------------ *)
(* Properties                                                           *)
(* ------------------------------------------------------------------ *)
(* has_results is false on the header: no result, or a populated one not found *)
NoResults ==
    shm.num_results = 0 \/ \E i \in 0..(shm.num_results - 1) : ~shm.results[i].found

(* the last call was a brain_process tick on the header; hist.from is the *)
(* FSM state it started in, and the results it read are still in the header *)
Ticked == hist.call = "brain_process"

PausedOrError == {"PAUSED", "ERROR"}

(* C1 as stated: no reachable state of the handoff has frame_ready = 1 and *)
(* result_ready = 1 at the same time.                                       *)
C1_NeverBothFlags == ~(shm.frame_ready = 1 /\ shm.result_ready = 1)

(* C1 amended: frame_ready = 1 and result_ready = 1 hold together only while *)
(* the consumer is between the last store of brain_process (result_ready =  *)
(* 1) and the loop's store frame_ready = 0.                                  *)
C1_BothFlagsOnlyBeforeClear ==
    (shm.frame_ready = 1 /\ shm.result_ready = 1) => cpc = "clear"

C1_BothFlagsBeforeClear ==
    shm.frame_ready = 1 /\ shm.result_ready = 1 /\ cpc = "clear"

(* C2: under weak fairness of both processes, for every frame the producer *)
(* eventually observes result_ready = 1 for it if and only if the consumer *)
(* eventually observes frame_ready = 1 for it.                              *)
C2_HandoffLiveness ==
    \A f \in 1..MaxFrames :
        /\ (<>(f \in hist.prod_seen)) => (<>(f \in hist.cons_seen))
        /\ (<>(f \in hist.cons_seen)) => (<>(f \in hist.prod_seen))

C2_LastFrameHandedOff ==
    MaxFrames \in hist.prod_seen /\ MaxFrames \in hist.cons_seen

(* the stores of one consumer tick so far, in the order the claim gives *)
TickStoresOrdered ==
    \E order \in {<<"results", "state", "result_ready", "frame_ready">>,
                  <<"results", "action", "state", "result_ready", "frame_ready">>} :
        /\ Len(hist.stores) <= Len(order)
        /\ hist.stores = SubSeq(order, 1, Len(hist.stores))

(* C3 as stated: the stores of a consumer tick are ordered results, pending  *)
(* action and state, result_ready = 1, frame_ready = 0, and a producer that  *)
(* has read result_ready = 1 reads the results, the state and the action     *)
(* stored for that frame, not those of an earlier one.                       *)
C3_OrderedStoresFreshReads ==
    /\ TickStoresOrdered
    /\ ppc = "clear" =>
          /\ hist.seen["results"] = shm.frame_number
          /\ hist.seen["state"] = shm.frame_number
          /\ hist.stamp["action"] = shm.frame_number
                => hist.seen["action"] = shm.frame_number

(* C4: a consumer step changes frame_ready only to 0 and result_ready only *)
(* to 1.                                                                    *)
C4_ConsumerFlagWrites ==
    [][Consumer => /\ shm'.frame_ready \in {shm.frame_ready, 0}
                   /\ shm'.result_ready \in {shm.result_ready, 1}]_vars

C4_TickCompleted ==
    /\ cpc = "poll"
    /\ hist.stores = <<"results", "state", "result_ready", "frame_ready">>
    /\ shm.result_ready = 1
    /\ shm.frame_ready = 0

(* C5: a brain_process tick started in IDLE with has_results false ends in *)
(* IDLE, whatever the rule evaluation returned.                             *)
C5_IdleWithoutResultsStaysIdle ==
    (Ticked /\ hist.from = "IDLE" /\ NoResults)
        => (g_current_state = "IDLE" /\ shm.current_state = "IDLE")

C5_IdleTickWithActionNoResults ==
    /\ Ticked
    /\ hist.from = "IDLE"
    /\ NoResults
    /\ action.type # "NONE"
    /\ g_current_state = "IDLE"

(* C6 as stated: after a tick that leaves the FSM in ACTION_PENDING, the  *)
(* next tick leaves it in EXECUTING and the one after in DETECTING,        *)
(* provided brain_set_state is not called in between.                      *)
C6_PendingExecutingDetecting ==
    Ticked => /\ hist.since_pending = 1 => g_current_state = "EXECUTING"
              /\ hist.since_pending = 2 => g_current_state = "DETECTING"

(* C6 amended: the same, provided none of brain_set_state, brain_shutdown *)
(* and an initialising brain_init is called in between.                    *)
C6_PendingExecutingDetectingNoReset ==
    (Ticked /\ ~hist.reset_between)
        => /\ hist.since_pending = 1 => g_current_state = "EXECUTING"
           /\ hist.since_pending = 2 => g_current_state = "DETECTING"

C6_SecondTickAfterPending ==
    /\ Ticked
    /\ ~hist.reset_between
    /\ hist.since_pending = 2
    /\ NoResults
    /\ g_current_state = "DETECTING"

(* C7: one brain_process tick from IDLE or DETECTING produces the table's  *)
(* next state: IDLE with has_results goes to DETECTING and otherwise stays *)
(* IDLE; DETECTING with an action pending goes to ACTION_PENDING, with     *)
(* none and has_results false to IDLE, with none and has_results true it   *)
(* stays DETECTING.                                                         *)
C7_IdleAndDetectingTable ==
    Ticked =>
        /\ (hist.from = "IDLE" /\ ~NoResults) => g_current_state = "DETECTING"
        /\ (hist.from = "IDLE" /\ NoResults) => g_current_state = "IDLE"
        /\ (hist.from = "DETECTING" /\ action.type # "NONE")
              => g_current_state = "ACTION_PENDING"
        /\ (hist.from = "DETECTING" /\ action.type = "NONE" /\ NoResults)
              => g_current_state = "IDLE"
        /\ (hist.from = "DETECTING" /\ action.type = "NONE" /\ ~NoResults)
              => g_current_state = "DETECTING"

C7_IdleToDetectingWithAction ==
    /\ Ticked
    /\ hist.from = "IDLE"
    /\ ~NoResults
    /\ action.type # "NONE"
    /\ g_current_state = "DETECTING"

(* a brain_process tick keeps PAUSED and ERROR and never enters them *)
TickKeepsPausedAndError ==
    ((g_current_state \in PausedOrError \/ g_current_state' \in PausedOrError)
        /\ brain_process("SHM"))
            => g_current_state' = g_current_state

(* a step that enters PAUSED or ERROR is a brain_set_state call *)
EnteredOnlyBySetState ==
    (g_current_state' \in PausedOrError /\ g_current_state' # g_current_state)
        => \E state \in GameState : brain_set_state(state)

(* C8 as stated: brain_process never moves the FSM into or out of PAUSED or *)
(* ERROR, and these states are entered only by brain_set_state and left     *)
(* only by brain_set_state or brain_shutdown.                               *)
C8_PausedErrorOnlyBySetStateOrShutdown ==
    [][/\ TickKeepsPausedAndError
       /\ EnteredOnlyBySetState
       /\ (g_current_state \in PausedOrError /\ g_current_state' # g_current_state)
             => \/ \E state \in GameState : brain_set_state(state)
                \/ brain_shutdown]_vars

(* C8 amended: the same, where PAUSED and ERROR are left only by           *)
(* brain_set_state, by brain_shutdown, or by a brain_init that initialises *)
(* the brain.                                                               *)
C8_PausedErrorOnlyByStateCalls ==
    [][/\ TickKeepsPausedAndError
       /\ EnteredOnlyBySetState
       /\ (g_current_state \in PausedOrError /\ g_current_state' # g_current_state)
             => \/ \E state \in GameState : brain_set_state(state)
                \/ brain_shutdown
                \/ (~g_brain_initialized /\ brain_init)]_vars

C8_PausedTickWithResults ==
    /\ Ticked
    /\ hist.from = "PAUSED"
    /\ ~NoResults
    /\ action.type # "NONE"
    /\ g_current_state = "PAUSED"

(* C9: a brain_process tick writes pending_action (with the action it      *)
(* evaluated) exactly when it moves the FSM from DETECTING to              *)
(* ACTION_PENDING; on every other tick pending_action keeps its value.     *)
C9_PendingActionWrittenOnEntry ==
    [][(Ticked' /\ brain_process("SHM")) =>
          IF g_current_state = "DETECTING" /\ g_current_state' = "ACTION_PENDING"
          THEN shm'.pending_action = action' /\ action'.type # "NONE"
          ELSE shm'.pending_action = shm.pending_action]_vars

C9_PendingActionCopied ==
    /\ Ticked
    /\ hist.from = "DETECTING"
    /\ g_current_state = "ACTION_PENDING"
    /\ shm.pending_action = action
    /\ action.type = "TAP"

(* C10: vision_process_frame on a null header or with frame_ready = 0      *)
(* returns a negative status and leaves num_results, every result slot,    *)
(* vision_latency_ns and both flags unchanged.                              *)
C10_StaleFrameTouchesNothing ==
    [][\A p \in Pointers :
          ((p = "NULL" \/ shm.frame_ready = 0) /\ vision_process_frame(p))
              => /\ ret' < 0
                 /\ shm'.num_results = shm.num_results
                 /\ shm'.results = shm.results
                 /\ shm'.vision_latency_ns = shm.vision_latency_ns
                 /\ shm'.frame_ready = shm.frame_ready
                 /\ shm'.result_ready = shm.result_ready]_vars

C10_StaleFrameRejected ==
    /\ hist.call = "vision_process_frame"
    /\ ret < 0
    /\ shm.frame_ready = 0
    /\ g_trigger_count > 0
    /\ shm.pixels = HitPixels

(* ------------------------------------------------------------------ *)
(* Properties of the vision orchestrator                                *)
(* ------------------------------------------------------------------ *)
(* the last call was a vision_process_frame that returned success; nothing *)
(* has touched the header or the tables since                              *)
Processed == hist.call = "vision_process_frame" /\ ret = 0

(* the indices of the active triggers of the table *)
ActiveTriggers == {i \in 1..g_trigger_count : g_triggers[i].active}

(* the index of the k-th active trigger in insertion order, k counted from 0 *)
KthActive(k) ==
    CHOOSE i \in ActiveTriggers : Cardinality({j \in ActiveTriggers : j < i}) = k

Min(a, b) == IF a <= b THEN a ELSE b

(* C11: after every successful vision_process_frame, num_results lies between *)
(* 0 and the smaller of the number of active triggers and 16.                 *)
C11_ResultCountBounded ==
    Processed => /\ shm.num_results >= 0
                 /\ shm.num_results <= Min(Cardinality(ActiveTriggers), RESULT_SLOTS)

C11_MoreActiveThanSlots ==
    /\ Processed
    /\ Cardinality(ActiveTriggers) > RESULT_SLOTS
    /\ g_trigger_count > Cardinality(ActiveTriggers)
    /\ shm.num_results = RESULT_SLOTS

(* C12: after every successful vision_process_frame every populated slot has *)
(* timestamp_ns equal to the time read at the start of that call, for every  *)
(* trigger type, while the clock advances during the call.                   *)
C12_TimestampIsStartTime ==
    [][(hist'.call = "vision_process_frame" /\ ret' = 0 /\ clock' > clock)
          => \A i \in 0..(shm'.num_results - 1) : shm'.results[i].timestamp_ns = clock]_vars

(* C13: after vision_process_frame every populated result that is found has *)
(* its location inside the frame, for every trigger type and region.        *)
C13_FoundLocationInsideFrame ==
    Processed =>
        \A i \in 0..(shm.num_results - 1) :
            shm.results[i].found =>
                /\ 0 <= shm.results[i].location.x
                /\ shm.results[i].location.x < shm.frame_width
                /\ 0 <= shm.results[i].location.y
                /\ shm.results[i].location.y < shm.frame_height

(* C14: after vision_process_frame slot k carries the id of the k-th active *)
(* trigger in insertion order; inactive triggers take no slot and active    *)
(* triggers beyond the 16th produce no result.                              *)
C14_SlotsFollowActiveTriggers ==
    Processed =>
        /\ shm.num_results = Min(Cardinality(ActiveTriggers), RESULT_SLOTS)
        /\ \A k \in 0..(shm.num_results - 1) :
              shm.results[k].trigger_id = g_triggers[KthActive(k)].id

(* C20: a failed vision_add_trigger or vision_load_template (table full, or *)
(* the pixel-buffer allocation failed) returns a negative status and leaves *)
(* the counts and every slot of its table unchanged, and a successful       *)
(* insert returns the index of the slot after the last stored entry, which  *)
(* is the index a failed insert before it would have returned.              *)
C20_FailedInsertChangesNothing ==
    [][/\ VisionHostAddTrigger =>
            IF ret' < 0
            THEN g_triggers' = g_triggers /\ g_trigger_count' = g_trigger_count
            ELSE ret' = g_trigger_count
       /\ VisionHostLoadTemplate =>
            IF ret' < 0
            THEN g_templates' = g_templates /\ g_template_count' = g_template_count
            ELSE ret' = g_template_count]_vars

(* ------------------------------------------------------------------ *)
(* Properties of brain_evaluate and brain_load_rules                    *)
(* ------------------------------------------------------------------ *)
(* a call of brain_evaluate that gets past the argument check *)
Evaluated(in) ==
    /\ cpc \in {"run", "fill"}
    /\ in.count > 0
    /\ DOMAIN in.results # {}
    /\ BrainEvaluateCall(in)

(* the loaded rules whose condition holds on blackboard bb *)
TrueRules(bb) == {i \in 1..g_rule_count : eval_condition(bb, g_rules[i].condition)}

(* the earliest of the rules of greatest priority in a set of rule indices, 0 when empty *)
BestRule(idx) ==
    IF idx = {} THEN 0
    ELSE CHOOSE i \in idx : \A j \in idx :
             \/ g_rules[j].priority < g_rules[i].priority
             \/ g_rules[j].priority = g_rules[i].priority /\ i <= j

(* the returned command is the one of rule b, b = 0 standing for no rule *)
Selects(cmd, b) ==
    IF b = 0 THEN cmd.type = "NONE"
    ELSE cmd.type = g_rules[b].action /\ cmd.start = g_rules[b].action_target

(* C15: a brain_evaluate call with count > 0 returns the command of the     *)
(* earliest rule of greatest priority among the loaded rules whose condition *)
(* holds on the updated blackboard, whatever the priorities are, and the     *)
(* command NONE only when no condition holds.                                *)
C15_SelectsGreatestPriority ==
    [][\A in \in EvaluateInputs :
          Evaluated(in) =>
              Selects(action', BestRule(TrueRules(Blackboard(g_variables', g_variable_count'))))]_vars

(* the index of the rule a call with input in selects, 0 for none: the call *)
(* returns before the selection loop on a null array or a count below 1     *)
SelectedBy(in) ==
    IF in.count > 0 /\ DOMAIN in.results # {}
    THEN SelectRule(Blackboard(g_variables', g_variable_count'), g_rules, 1, g_rule_count, -1, 0)
    ELSE 0

(* the command the specification gives for rule b, b = 0 standing for no rule *)
CommandFor(b) ==
    IF b # 0
    THEN [type |-> g_rules[b].action, start |-> g_rules[b].action_target,
          end |-> Point2D(0, 0), duration_ms |-> 50, hold_ms |-> 0, randomize |-> 30]
    ELSE [type |-> "NONE", start |-> Point2D(0, 0), end |-> Point2D(0, 0),
          duration_ms |-> 0, hold_ms |-> 0, randomize |-> 0]

(* C16: every brain_evaluate call returns, when it selects a rule, the command *)
(* {rule.action, rule.action_target, end (0,0), 50 ms, hold 0, randomize 0.3}, *)
(* and otherwise the command NONE with every other field zero, whatever the    *)
(* command returned by the call before was.                                    *)
C16_CommandBuiltFromRule ==
    [][\A in \in EvaluateInputs :
          (cpc \in {"run", "fill"} /\ BrainEvaluateCall(in)) =>
              action' = CommandFor(SelectedBy(in))]_vars

(* a call has returned the command of a selected rule *)
C16_RuleCommandReturned ==
    /\ hist.call = "brain_evaluate"
    /\ action.type # "NONE"
    /\ action.start # Point2D(0, 0)
    /\ action.duration_ms = 50

(* the arguments brain_load_rules rejects *)
LoadRejected(p, count) == p = "NULL" \/ count < 1 \/ count > 256

(* C19: brain_load_rules returns a negative status and leaves g_rules and     *)
(* g_rule_count as they were when rules is null, count < 1 or count > 256;    *)
(* otherwise it returns 0 and the live table is the first count rules of the  *)
(* argument in their order, whatever was loaded before.                       *)
C19_LoadRulesReplacesOrRejects ==
    [][\A p \in Pointers, rules \in RuleInputs : \A count \in CountInputs(rules) :
          (cpc = "rules" /\ brain_load_rules(p, rules, count)) =>
              IF LoadRejected(p, count)
              THEN ret' < 0 /\ g_rules' = g_rules /\ g_rule_count' = g_rule_count
              ELSE /\ ret' = 0
                   /\ g_rule_count' = count
                   /\ SubSeq(g_rules', 1, g_rule_count') = SubSeq(rules, 1, count)]_vars

(* a second table has been loaded over a longer one *)
C19_ShorterTableLoadedOverLonger ==
    /\ hist.call = "brain_load_rules"
    /\ ret = 0
    /\ hist.loads = 2
    /\ g_rule_count < Len(g_rules)

(* the <<name, value>> pairs the update loop sets for a found result r *)
ResultVariables(r) ==
    {<<TriggerVarName(r.trigger_id, <<"_", "x">>), r.location.x>>,
     <<TriggerVarName(r.trigger_id, <<"_", "y">>), r.location.y>>,
     <<TriggerVarName(r.trigger_id, <<"_", "f", "o", "u", "n", "d">>), 1>>} \cup
    (IF r.trigger_id = 1
     THEN {<<Name_bird_x, r.location.x>>, <<Name_bird_y, r.location.y>>} ELSE {}) \cup
    (IF r.trigger_id = 2
     THEN {<<Name_gap_center_x, r.location.x>>, <<Name_gap_center_y, r.location.y>>} ELSE {})

(* result i of the call is found and no later found result has its trigger id *)
LastFound(in, i) ==
    /\ in.results[i].found
    /\ \A j \in (i + 1)..(in.count - 1) :
           ~(in.results[j].found /\ in.results[j].trigger_id = in.results[i].trigger_id)

(* blackboard bb has an entry of the name of nv with the value of nv *)
Holds(bb, nv) == FindVariable(bb, nv[1]) # 0 /\ get_variable(bb, nv[1]) = nv[2]

(* slot k of the blackboard after a step is new or differs from the slot before *)
Written(k) == k > g_variable_count \/ g_variables'[k] # g_variables[k]

(* C18: after a brain_evaluate call with count > 0 the blackboard holds, for  *)
(* every found result, trigger_<id>_x, trigger_<id>_y = its location and      *)
(* trigger_<id>_found = 1 (and bird_x, bird_y for id 1, gap_center_x,         *)
(* gap_center_y for id 2); only names of found results are written; and the   *)
(* returned command is the one the rules give on that updated blackboard.     *)
C18_FoundResultsReachBlackboard ==
    [][\A in \in EvaluateInputs :
          Evaluated(in) =>
              /\ \A i \in 0..(in.count - 1) :
                     LastFound(in, i) =>
                         \A nv \in ResultVariables(in.results[i]) :
                             Holds(Blackboard(g_variables', g_variable_count'), nv)
              /\ \A k \in 1..g_variable_count' :
                     Written(k) =>
                         \E i \in 0..(in.count - 1) :
                             /\ in.results[i].found
                             /\ \E nv \in ResultVariables(in.results[i]) :
                                    nv[1] = g_variables'[k].name
              /\ Selects(action', SelectedBy(in))]_vars

(* ------------------------------------------------------------------ *)
(* Properties of the blackboard                                         *)
(* ------------------------------------------------------------------ *)
(* every name a call of BlackboardSpec can have *)
AllBoardNames ==
    {Name_bird_x, Name_long, Name_long_cut, Name_absent} \cup
    {FillerName(n) : n \in 0..(MAX_VARIABLES - 1)}

(* the value of the latest successful set of name, 0 when there was none *)
LatestSet(name) == IF name \in DOMAIN hist.latest THEN hist.latest[name] ELSE 0

(* the table is a map of at most 64 entries that holds the latest set of each name *)
BoardIsMap ==
    /\ \A name \in AllBoardNames :
           get_variable(Blackboard(g_variables, g_variable_count), name) = LatestSet(name)
    /\ \A i, j \in 1..g_variable_count : g_variables[i].name = g_variables[j].name => i = j
    /\ g_variable_count <= 64

(* a set of a name that is not present when 64 entries exist fails and changes nothing *)
FullBoardRejects ==
    \A name \in BoardNames, value \in BoardValues :
        (/\ g_variable_count = 64
         /\ FindVariable(Blackboard(g_variables, g_variable_count), name) = 0
         /\ BoardSetCall(name, value)) =>
            ret' < 0 /\ g_variables' = g_variables /\ g_variable_count' = g_variable_count

(* no successful set so far had a name of more than 31 characters *)
ShortNamesOnly == \A n \in DOMAIN hist.latest : Len(n) <= NAME_MAX

C21_WrongMagicIsAttachFailure ==
    shm.magic # RASH_MAGIC =>
        /\ cpc \in {"attach", "exit"}
        /\ cpc = "exit" => ret = 1
        /\ shm.result_ready = 0
        /\ hist.cons_seen = {}

(* ------------------------------------------------------------------ *)
(* Properties of the expression language                                *)
(* ------------------------------------------------------------------ *)
(* the value of an atom: the literal, or the latest set of the identifier, *)
(* 0 when no call has set it                                               *)
AtomValue(a) == IF a.kind = "num" THEN a.n ELSE LatestSet(a.name)

(* a op1 (b op2 (c ...)) from atom i on *)
RECURSIVE RightValue(_, _)
RightValue(c, i) ==
    IF i = Len(c.atoms) THEN AtomValue(c.atoms[i])
    ELSE IF c.ops[i] = "+" THEN AtomValue(c.atoms[i]) + RightValue(c, i + 1)
    ELSE AtomValue(c.atoms[i]) - RightValue(c, i + 1)

(* C22: eval_value of a chain of atoms joined by '+' and '-', each operator  *)
(* between spaces, is a op1 (b op2 (c ...)), an identifier that is not on    *)
(* the blackboard counting as 0.                                             *)
C22_ValueChainsAssociateRight ==
    (hist.call = "eval_value" /\ ~hist.expr.glued) =>
        ret = RightValue(hist.expr.form, 1)

(* "10 - 3 - 2" has been evaluated to 9 *)
C22_TenMinusThreeMinusTwo ==
    /\ hist.call = "eval_value"
    /\ hist.expr.text = <<"1", "0", " ", "-", " ", "3", " ", "-", " ", "2">>
    /\ ret = 9

(* relational operator k of RelOps on two integers *)
Related(k, l, r) ==
    IF k = 1 THEN l > r ELSE IF k = 2 THEN l < r ELSE IF k = 3 THEN l >= r
    ELSE IF k = 4 THEN l <= r ELSE IF k = 5 THEN l = r ELSE l # r

ComparisonHolds(cmp) == Related(cmp.rel, RightValue(cmp.left, 1), RightValue(cmp.right, 1))

(* c1 L1 (c2 L2 (c3 ...)) from comparison i on *)
RECURSIVE RightCondition(_, _)
RightCondition(c, i) ==
    IF i = Len(c.comps) THEN ComparisonHolds(c.comps[i])
    ELSE IF c.logs[i] = "&&" THEN ComparisonHolds(c.comps[i]) /\ RightCondition(c, i + 1)
    ELSE ComparisonHolds(c.comps[i]) \/ RightCondition(c, i + 1)

ConditionHolds(c) ==
    IF c.kind = "value" THEN RightValue(c.chain, 1) # 0 ELSE RightCondition(c, 1)

(* C23: eval_condition of a chain of comparisons joined by && and || is     *)
(* c1 L1 (c2 L2 (c3 ...)) with no precedence between && and ||, and a       *)
(* condition with no relational operator is true exactly when its value is  *)
(* not 0.                                                                   *)
C23_ConditionChainsAssociateRight ==
    (hist.call = "eval_condition" /\ ~hist.expr.glued) =>
        (ret = 1 <=> ConditionHolds(hist.expr.form))

(* "2 < -1 && 2 > -1 || 2 > -1" has been evaluated to false *)
C23_FalseAndTrueOrTrue ==
    /\ hist.call = "eval_condition"
    /\ ~hist.expr.glued
    /\ hist.expr.form = CondChain(<<Comparison(One(Num(2)), 2, One(Num(-1))),
                                    Comparison(One(Num(2)), 1, One(Num(-1))),
                                    Comparison(One(Num(2)), 1, One(Num(-1)))>>,
                                  <<"&&", "||">>)
    /\ ret = 0

(* C24: a '-' glued to a digit after an operand is the subtraction operator, *)
(* and the sign of a literal only where no operand precedes it: an           *)
(* expression whose operators are glued to their right operands, such as     *)
(* "10 -3" or "x -3 > 0", has the value of the expression with spaces.       *)
C24_GluedMinusAfterOperandSubtracts ==
    /\ hist.call = "eval_value" => ret = RightValue(hist.expr.form, 1)
    /\ hist.call = "eval_condition" => (ret = 1 <=> ConditionHolds(hist.expr.form))

(* ------------------------------------------------------------------ *)
(* Properties of brain_process's has_results signal                     *)
(* ------------------------------------------------------------------ *)
(* num_results > 0 and every slot below num_results is found *)
PopulatedAllFound ==
    /\ shm.num_results > 0
    /\ ~\E i \in 0..(RESULT_SLOTS - 1) : i < shm.num_results /\ ~shm.results[i].found

(* C25: the signal brain_process feeds to the FSM is true exactly when        *)
(* num_results > 0 and every slot below num_results is found, whatever the    *)
(* slots from num_results on hold: a tick from IDLE ends in DETECTING exactly *)
(* when it is true, and a tick from DETECTING with no action ends in IDLE     *)
(* exactly when it is false.                                                  *)
C25_SignalFromPopulatedSlots ==
    [][TickProcess =>
          /\ g_current_state = "IDLE" =>
                 (g_current_state' = "DETECTING" <=> PopulatedAllFound)
          /\ (g_current_state = "DETECTING" /\ action'.type = "NONE") =>
                 (g_current_state' = "IDLE" <=> ~PopulatedAllFound)]_vars

(* a tick has taken the signal as true with an unfound slot past num_results *)
C25_UnfoundSlotPastCount ==
    /\ hist.call = "brain_process"
    /\ shm.num_results = 1
    /\ shm.results[0].found
    /\ ~shm.results[1].found
    /\ g_current_state = "DETECTING"
    /\ action.type = "NONE"
    /\ shm.result_ready = 1

(* ------------------------------------------------------------------ *)
(* Properties of the result slots across frames                         *)
(* ------------------------------------------------------------------ *)
(* the header with every result slot zeroed *)
Zeroed(h) == [h EXCEPT !.results = [i \in 0..(RESULT_SLOTS - 1) |-> ZeroResult]]

(* what the call computes from the frame and the tables when it starts from *)
(* zeroed slots and the local `center` starts as the point garbage          *)
FromFrameAlone(garbage) ==
    VisionBody(Zeroed(shm), g_triggers, g_trigger_count,
               [templates |-> g_templates, count |-> g_template_count],
               garbage, Readings(clock, clock), ElapsedNs).shm.results

SameDetection(r, s) ==
    r.found = s.found /\ r.confidence = s.confidence /\ r.location = s.location

(* C26: after a successful vision_process_frame the found, confidence and    *)
(* location of every populated slot are what the current frame and the       *)
(* trigger and template tables give, whatever the slots and the locals held  *)
(* before the call.                                                          *)
C26_SlotsFromCurrentFrame ==
    [][(VisionHostProcess /\ ret' = 0) =>
          \A k \in 0..(shm'.num_results - 1), garbage \in GarbagePoints :
              SameDetection(shm'.results[k], FromFrameAlone(garbage)[k])]_vars

(* ------------------------------------------------------------------ *)
(* Properties of rgb_to_hsv                                             *)
(* ------------------------------------------------------------------ *)
(* C27: for every pixel with channels in 0..255, rgb_to_hsv returns a hue *)
(* h with 0 <= h <= 179.                                                  *)
C27_HueWithin179 ==
    hist.call = "rgb_to_hsv" => (0 <= hist.color.hsv.h /\ hist.color.hsv.h <= 179)

(* ------------------------------------------------------------------ *)
(* Properties of the frame hand-off under interleaving                  *)
(* ------------------------------------------------------------------ *)
(* the producer has raised frame_ready for a frame the consumer's poll has *)
(* not seen                                                                *)
LaterFramePublished == ppc = "wait" /\ shm.frame_number \notin hist.cons_seen

(* C28: the consumer's store frame_ready = 0 never falls on a frame_ready = 1 *)
(* that the producer raised for a later frame, so no published frame is left  *)
(* unprocessed with both flags down.                                          *)
C28_ClearNeverHitsLaterFrame ==
    [][main_clear_frame_ready => ~LaterFramePublished]_vars


(* the consumer is inside vision_process_frame: it has observed frame_ready = 1 *)
(* and has not yet returned from the call                                       *)
ConsumerReadsFrame == cpc = "vision"

(* a store of the consumer to the result slots has not yet landed in the memory *)
(* the producer reads                                                           *)
ConsumerWritesResults == cpc = "vision" \/ "results" \in in_flight

(* C29: the consumer reads pixels and metadata only between observing         *)
(* frame_ready = 1 and storing result_ready = 1 and its result-slot stores    *)
(* land only while result_ready = 0; the producer never writes the pixels     *)
(* while vision_process_frame reads them and never reads the results while    *)
(* the consumer is writing them.                                              *)
C29_PayloadExclusive ==
    /\ ConsumerReadsFrame => shm.frame_ready = 1 /\ shm.result_ready = 0
    /\ ConsumerWritesResults => shm.result_ready = 0
    /\ ~(ConsumerReadsFrame /\ ppc \in {"prepare", "publish"})
    /\ ~(ConsumerWritesResults /\ ppc = "read")


(* ------------------------------------------------------------------ *)
(* Properties of the detection variables across frames                  *)
(* ------------------------------------------------------------------ *)
Name_found == <<"_", "f", "o", "u", "n", "d">>

(* the blackboard has trigger_k_found = 1 and trigger_k_x, trigger_k_y at p *)
DetectionHeld(bb, k, p) ==
    /\ Holds(bb, <<TriggerVarName(k, Name_found), 1>>)
    /\ Holds(bb, <<TriggerVarName(k, <<"_", "x">>), p.x>>)
    /\ Holds(bb, <<TriggerVarName(k, <<"_", "y">>), p.y>>)

(* every trigger id that had a found result in some call keeps its variables *)
DetectionsSticky ==
    g_brain_initialized =>
        \A k \in DOMAIN hist.found_at :
            DetectionHeld(Blackboard(g_variables, g_variable_count), k, hist.found_at[k])

(* a step other than brain_shutdown keeps every entry of the blackboard: its  *)
(* name stays in its slot and no trigger_k_found entry goes to 0              *)
EntriesKept ==
    g_brain_initialized /\ g_brain_initialized' =>
        /\ g_variable_count' >= g_variable_count
        /\ \A i \in 1..g_variable_count :
               /\ g_variables'[i].name = g_variables[i].name
               /\ g_variables[i].value = 1 => g_variables'[i].value # 0

(* C30: once a call had a found result for trigger id k, trigger_k_found is 1 *)
(* and trigger_k_x, trigger_k_y are the location of the latest found result   *)
(* of k in every later state until brain_shutdown; no call removes a variable *)
(* or zeroes a found flag, and the variable count never decreases.            *)
C30_DetectionVariablesSticky ==
    /\ []DetectionsSticky
    /\ [][EntriesKept]_vars

====
